---- MODULE Spec2Model ----
(***************************************************************************)
(* A model of go-asciitree: the MapStructVisitor (Roots, Label, Get), the  *)
(* struct field cache, the TreeStyler and the line-by-line tree renderer.  *)
(*                                                                         *)
(* Text is a sequence of one-character strings, so that concatenation,     *)
(* prefixes and lexicographic comparison are computed and not assumed.     *)
(* Go values (any / reflect.Value) are records tagged with their kind.     *)
(***************************************************************************)
EXTENDS Integers, Sequences, FiniteSets, TLC

VARIABLES
    input,              \* the caller's data passed as roots / node argument
    orig,               \* the caller's data as it was before any call
    visitor,            \* the MapStructVisitor: SortNodes, SortProperties
    styler,             \* the TreeStyler: Style, ChildIndent, PropIndent
    structFieldsCache,  \* struct type -> structFields (sync.Map)
    fieldCache,         \* struct type -> fieldCacheItem (reflect.Value API)
    heap,               \* concurrent introspection: the entries allocated
    callers,            \* concurrent introspection: each caller's progress
    history,            \* repeated introspection: the calls made so far
    pc,                 \* "start", "render", "done" or "panic"
    op,                 \* the entry point that was called
    rootsList,          \* Render: the resolved roots
    rootIdx,            \* Render: index of the root being rendered
    stack,              \* Render: the active renderSubtree iterators
    result,             \* Render: the strings.Builder
    ret,                \* what the call returned (NoValue until it returns)
    fault               \* the panic raised, "" when none

vars == << input, orig, visitor, styler, structFieldsCache, fieldCache,
           heap, callers, history, pc, op,
           rootsList, rootIdx, stack, result, ret, fault >>

-----------------------------------------------------------------------------
(* Text                                                                    *)

\* The grave accent (0x60), which a TLA+ string cannot hold.
Grave == "GRAVE"

\* The characters of the model in ascending byte order (strings.Compare and
\* sort.Strings compare bytes).
CharOrder == << "\n", " ", "*", "+", ",", "-", Grave, "a", "b", "p", "q", "|" >>

Ord(c) == CHOOSE i \in 1..Len(CharOrder) : CharOrder[i] = c

RECURSIVE Compare(_, _)
\* strings.Compare(a, b): -1, 0 or +1, lexicographic by byte.
Compare(a, b) ==
    IF a = << >> /\ b = << >> THEN 0
    ELSE IF a = << >> THEN -1
    ELSE IF b = << >> THEN 1
    ELSE IF Ord(Head(a)) < Ord(Head(b)) THEN -1
    ELSE IF Ord(Head(a)) > Ord(Head(b)) THEN 1
    ELSE Compare(Tail(a), Tail(b))

\* A repeat that returns s once when count is not positive.
repeat_AtLeastOnce(s, count) ==
    IF count > 1 THEN [i \in 1..(count * Len(s)) |-> s[((i - 1) % Len(s)) + 1]] ELSE s

RECURSIVE repeat(_, _)
\* repeat(s, count): s repeated count times, "" when count <= 0.
repeat(s, count) == IF count > 0 THEN s \o repeat(s, count - 1) ELSE << >>

RECURSIVE InsertString(_, _)
InsertString(sorted, s) ==
    IF sorted = << >> THEN << s >>
    ELSE IF Compare(s, Head(sorted)) < 0 THEN << s >> \o sorted
    ELSE << Head(sorted) >> \o InsertString(Tail(sorted), s)

\* A sort.Strings that leaves x as it is.
SortStrings_Keep(x) == x

RECURSIVE SortStrings(_)
\* sort.Strings(x): x in ascending order.
SortStrings(x) ==
    IF x = << >> THEN << >>
    ELSE InsertString(SortStrings(SubSeq(x, 1, Len(x) - 1)), x[Len(x)])

-----------------------------------------------------------------------------
(* Go values                                                               *)

NoValue == [kind |-> "none"]

Invalid == [kind |-> "invalid"]                      \* nil / zero reflect.Value
IntV(n) == [kind |-> "int", v |-> n]
StringV(s) == [kind |-> "string", typ |-> "string", s |-> s]
\* a value of a defined type whose underlying type is string (type Text string)
TextV(s) == [kind |-> "string", typ |-> "Text", s |-> s]
StringsV(ss) == [kind |-> "slice", of |-> "string", elems |-> ss]   \* []string
SliceV(es) == [kind |-> "slice", of |-> "any", elems |-> es]
PtrV(e) == [kind |-> "ptr", elem |-> e]
MapV(m) == [kind |-> "map", m |-> m]                 \* map[string]any
StructV(t, fs) == [kind |-> "struct", typ |-> t, fields |-> fs]

\* An Indirect that leaves a pointer as it is.
Indirect_Not(x) == x

\* reflect.Indirect(reflect.ValueOf(x))
Indirect(x) == IF x.kind = "ptr" THEN x.elem ELSE x

\* rv.MapIndex(reflect.ValueOf(key)): Invalid when the key is absent.
MapIndex(mv, key) == IF key \in DOMAIN mv.m THEN mv.m[key] ELSE Invalid

\* anySlice(v): the elements of a slice, nil when v is not a slice.
anySlice(v) ==
    IF v.kind # "slice" THEN << >>
    ELSE IF v.of = "string" THEN [i \in 1..Len(v.elems) |-> StringV(v.elems[i])]
    ELSE v.elems

RECURSIVE FieldByIndex(_, _)
\* node.FieldByIndex(path)
FieldByIndex(sv, path) ==
    IF Len(path) = 1 THEN sv.fields[path[1]]
    ELSE FieldByIndex(sv.fields[path[1]], Tail(path))

-----------------------------------------------------------------------------
(* Struct types and the struct field cache                                 *)

TagLabel == << "l", "a", "b", "e", "l" >>
TagProperties == << "p", "r", "o", "p", "e", "r", "t", "i", "e", "s" >>
TagChildren == << "c", "h", "i", "l", "d", "r", "e", "n" >>
TagRoots == << "r", "o", "o", "t", "s" >>

\* A struct field: its asciitree tag (hasTag FALSE when the field has none),
\* whether it is anonymous (embedded), and its type when it is a struct.
Fld(hasTag, tag, anonymous, kind, typ) ==
    [hasTag |-> hasTag, tag |-> tag, anonymous |-> anonymous,
     kind |-> kind, typ |-> typ]

Tagged(tag) == Fld(TRUE, tag, FALSE, "other", "")

\* The four roles a tag can give a member, and a tag value that is none.
Roles == << TagLabel, TagProperties, TagChildren, TagRoots >>
TagFoo == << "f", "o", "o" >>

Untagged == Fld(FALSE, << >>, FALSE, "other", "")
Embedded(typ) == Fld(FALSE, << >>, TRUE, "struct", typ)       \* T (anonymous)
EmbeddedRef(typ) == Fld(FALSE, << >>, TRUE, "ptr", typ)       \* *T (anonymous)
Named(typ) == Fld(FALSE, << >>, FALSE, "struct", typ)         \* Inner T

\* The names of the struct types declared per role (entry i: role Roles[i]).
\*   TL..:       one member tagged with the role
\*   Dup..:      two members tagged with the role
\*   EmbOnly..:  TL.. embedded
\*   EmbFirst..: TL.. embedded, then a member tagged with the role
\*   EmbLast..:  a member tagged with the role, then TL.. embedded
\*   Named..:    a named member of type TL..
\*   NamedOwn..: a named member of type TL.., then a member tagged with the role
\*   EmbRef..:   *TL.. embedded
TLName == << "TL", "TL2", "TL3", "TL4" >>
DupName == << "DupLabel", "DupProperties", "DupChildren", "DupRoots" >>
EmbOnlyName == << "EmbOnlyLabel", "EmbOnlyProperties", "EmbOnlyChildren", "EmbOnlyRoots" >>
EmbFirstName ==
    << "EmbFirstLabel", "EmbFirstProperties", "EmbFirstChildren", "EmbFirstRoots" >>
EmbLastName == << "EmbLastLabel", "EmbLastProperties", "EmbLastChildren", "EmbLastRoots" >>
NamedName == << "NamedLabel", "NamedProperties", "NamedChildren", "NamedRoots" >>
NamedOwnName ==
    << "NamedOwnLabel", "NamedOwnProperties", "NamedOwnChildren", "NamedOwnRoots" >>
EmbRefName == << "EmbRefLabel", "EmbRefProperties", "EmbRefChildren", "EmbRefRoots" >>

\* The struct types declared for role i.
RoleTypes(i) ==
    (TLName[i] :> << Tagged(Roles[i]) >>)
    @@ (DupName[i] :> << Tagged(Roles[i]), Tagged(Roles[i]) >>)
    @@ (EmbOnlyName[i] :> << Embedded(TLName[i]) >>)
    @@ (EmbFirstName[i] :> << Embedded(TLName[i]), Tagged(Roles[i]) >>)
    @@ (EmbLastName[i] :> << Tagged(Roles[i]), Embedded(TLName[i]) >>)
    @@ (NamedName[i] :> << Named(TLName[i]) >>)
    @@ (NamedOwnName[i] :> << Named(TLName[i]), Tagged(Roles[i]) >>)
    @@ (EmbRefName[i] :> << EmbeddedRef(TLName[i]) >>)

\* The struct types of the model: the fields of each, in declaration order.
\*   Node:    Name `label`, Properties `properties`, Subnodes `children`
\*   R:       Roots `roots`
\*   Empty:   struct{}
\*   X:       one member without a tag
\*   BadTag:  one member tagged `asciitree:"foo"`
\*   EmbBad:  BadTag embedded
\*   EmbX:    X embedded
\*   EmbNode: Node embedded, then a member without a tag
\*   Emb2Node: a member without a tag, then EmbNode embedded
StructTypes ==
    [ Node   |-> << Tagged(TagLabel), Tagged(TagProperties), Tagged(TagChildren) >>,
      R      |-> << Tagged(TagRoots) >>,
      Empty  |-> << >>,
      X      |-> << Untagged >>,
      BadTag |-> << Tagged(TagFoo) >>,
      EmbBad |-> << Embedded("BadTag") >>,
      EmbX |-> << Embedded("X") >>,
      EmbNode |-> << Embedded("Node"), Untagged >>,
      Emb2Node |-> << Untagged, Embedded("EmbNode") >> ]
    @@ RoleTypes(1) @@ RoleTypes(2) @@ RoleTypes(3) @@ RoleTypes(4)

RECURSIVE ZeroOf(_)
\* The zero value of a struct type. A member tagged with a role has the type
\* the role asks for (string, []string, a slice of nodes); another member is
\* a bool, an embedded pointer is nil.
ZeroOf(t) ==
    LET zero(f) ==
            CASE f.kind = "struct" -> ZeroOf(f.typ)
              [] f.kind = "ptr" -> PtrV(Invalid)
              [] f.hasTag /\ f.tag = TagLabel -> StringV(<< >>)
              [] f.hasTag /\ f.tag = TagProperties -> StringsV(<< >>)
              [] f.hasTag /\ f.tag \in { TagChildren, TagRoots } -> SliceV(<< >>)
              [] OTHER -> [kind |-> "bool", v |-> FALSE]
        zeros(fields) == [i \in 1..Len(fields) |-> zero(fields[i])]
    IN StructV(t, zeros(StructTypes[t]))

NilPath == << >>

\* &structFields{}
NewStructFields ==
    [LabelPath |-> NilPath, PropertiesPath |-> NilPath,
     ChildrenPath |-> NilPath, RootsPath |-> NilPath]

\* hasAsciitreeTagValue without the comparison with the value looked for.
hasAsciitreeTagValue_AnyTag(field, value) == field.hasTag
\* hasAsciitreeTagValue(field, value)
hasAsciitreeTagValue(field, value) == field.hasTag /\ field.tag = value

\* A descent into every member that is a struct, named ones included.
digsDeeper_Named(field) == field.kind = "struct"

\* field.Anonymous && field.Type.Kind() == reflect.Struct
digsDeeper(field) == field.anonymous /\ field.kind = "struct"

RECURSIVE findFieldsFrom(_, _, _, _)
\* The loop of findFieldsRecursively from field index fieldIdx on.
findFieldsFrom(structT, path, sf, fieldIdx) ==
    IF fieldIdx > Len(StructTypes[structT]) THEN sf
    ELSE LET next(field, here) ==
                IF digsDeeper(field)
                THEN findFieldsFrom(field.typ, here, sf, 1)
                ELSE IF sf.LabelPath = NilPath /\ hasAsciitreeTagValue(field, TagLabel)
                THEN [sf EXCEPT !.LabelPath = here]
                ELSE IF sf.PropertiesPath = NilPath /\ hasAsciitreeTagValue(field, TagProperties)
                THEN [sf EXCEPT !.PropertiesPath = here]
                ELSE IF sf.ChildrenPath = NilPath /\ hasAsciitreeTagValue(field, TagChildren)
                THEN [sf EXCEPT !.ChildrenPath = here]
                ELSE IF sf.RootsPath = NilPath /\ hasAsciitreeTagValue(field, TagRoots)
                THEN [sf EXCEPT !.RootsPath = here]
                ELSE sf
         IN findFieldsFrom(structT, path,
                           next(StructTypes[structT][fieldIdx], path \o << fieldIdx >>),
                           fieldIdx + 1)

\* findFieldsRecursively(structT, path, sf)
findFieldsRecursively(structT, path, sf) == findFieldsFrom(structT, path, sf, 1)

\* A structInfoCache that stores an entry under the kind of what is no struct.
structInfoCache_StoresNil(cache, node) ==
    IF node.kind # "struct"
    THEN [sf |-> NoValue, cache |-> (node.kind :> NewStructFields) @@ cache]
    ELSE IF node.typ \in DOMAIN cache
    THEN [sf |-> cache[node.typ], cache |-> cache]
    ELSE LET stored(newsf) == [sf |-> newsf, cache |-> (node.typ :> newsf) @@ cache]
         IN stored(findFieldsRecursively(node.typ, << >>, NewStructFields))

\* structInfoCache(cache, node): nil for what is no struct, else the entry
\* returned and the cache afterwards (Load, else scan and LoadOrStore).
structInfoCache(cache, node) ==
    IF node.kind # "struct" THEN [sf |-> NoValue, cache |-> cache]
    ELSE IF node.typ \in DOMAIN cache
    THEN [sf |-> cache[node.typ], cache |-> cache]
    ELSE LET stored(newsf) == [sf |-> newsf, cache |-> (node.typ :> newsf) @@ cache]
         IN stored(findFieldsRecursively(node.typ, << >>, NewStructFields))

\* structFieldInfo(node)
structFieldInfo(cache, node) == structInfoCache(cache, node)

-----------------------------------------------------------------------------
(* MapStructVisitor                                                        *)

FaultRoots == "expecting roots to be a slice, struct, or map"
FaultNode == "unsupported asciitree node or root type"
FaultProps == "interface conversion: not []string"
FaultRender == "unsupported roots value type"
FaultLabel == "interface conversion: not string"

\* reflect.Value.String(): the string itself, or "<T Value>" for another kind.
ValueString(v) == IF v.kind = "string" THEN v.s ELSE << "<", v.kind, " Value>" >>

\* v.nodeLabel(node)
nodeLabel(cache, node) ==
    LET n == Indirect(node)
        structLabel(si) ==
            [fault |-> "", cache |-> si.cache,
             label |-> IF si.sf.LabelPath = NilPath THEN << >>
                       ELSE ValueString(FieldByIndex(n, si.sf.LabelPath))]
        mapLabel(labelV) ==
            [fault |-> "", cache |-> cache,
             label |-> IF labelV.kind # "string" THEN << >> ELSE labelV.s]
        \* labelV.Interface().(string) of a value whose Kind is String
        mapText(labelV) ==
            IF labelV.kind = "string" /\ labelV.typ # "string"
            THEN [fault |-> FaultLabel, cache |-> cache, label |-> << >>]
            ELSE mapLabel(labelV)
    IN
    CASE n.kind = "struct" -> structLabel(structFieldInfo(cache, n))
      [] n.kind = "map" -> mapText(MapIndex(n, "label"))
      [] OTHER -> [fault |-> FaultNode, cache |-> cache, label |-> << >>]

\* v.Label(node)
Label(cache, node) == nodeLabel(cache, node)

RECURSIVE labelNodes(_, _, _)
\* The first loop of sortedNodes: each node paired with its label, stopping
\* at the first node Label panics on.
labelNodes(cache, nodes, acc) ==
    IF nodes = << >> THEN [fault |-> "", cache |-> cache, labelled |-> acc]
    ELSE LET labelled(l) ==
                IF l.fault # "" THEN [fault |-> l.fault, cache |-> l.cache, labelled |-> acc]
                ELSE labelNodes(l.cache, Tail(nodes),
                                Append(acc, [Label |-> l.label, Node |-> Head(nodes)]))
         IN labelled(Label(cache, Head(nodes)))

RECURSIVE InsertStable_BeforeEqual(_, _)
\* An insertion that puts x before the elements equal to it.
InsertStable_BeforeEqual(sorted, x) ==
    IF sorted = << >> THEN << x >>
    ELSE IF Compare(x.Label, Head(sorted).Label) <= 0 THEN << x >> \o sorted
    ELSE << Head(sorted) >> \o InsertStable_BeforeEqual(Tail(sorted), x)

RECURSIVE InsertStable(_, _)
\* x placed behind every element that does not compare greater than it.
InsertStable(sorted, x) ==
    IF sorted = << >> THEN << x >>
    ELSE IF Compare(x.Label, Head(sorted).Label) < 0 THEN << x >> \o sorted
    ELSE << Head(sorted) >> \o InsertStable(Tail(sorted), x)

RECURSIVE SortStableFunc(_)
\* slices.SortStableFunc(labelledNodes, by strings.Compare of the labels)
SortStableFunc(l) ==
    IF l = << >> THEN << >>
    ELSE InsertStable(SortStableFunc(SubSeq(l, 1, Len(l) - 1)), l[Len(l)])

\* sortedNodes that labels the nodes and forgets to sort them.
sortedNodes_Unsorted(cache, nodes) ==
    LET unsorted(ln) ==
            IF ln.fault # "" THEN [fault |-> ln.fault, cache |-> ln.cache, nodes |-> << >>]
            ELSE [fault |-> "", cache |-> ln.cache, nodes |-> nodes]
    IN unsorted(labelNodes(cache, nodes, << >>))

\* v.sortedNodes(nodes): a new slice of the nodes, sorted by label.
sortedNodes(cache, nodes) ==
    LET nodesOf(sorted) == [i \in 1..Len(sorted) |-> sorted[i].Node]
        sortLabelled(ln) ==
            IF ln.fault # "" THEN [fault |-> ln.fault, cache |-> ln.cache, nodes |-> << >>]
            ELSE [fault |-> "", cache |-> ln.cache,
                  nodes |-> nodesOf(SortStableFunc(ln.labelled))]
    IN sortLabelled(labelNodes(cache, nodes, << >>))

RECURSIVE Roots(_, _, _)

\* mapRoots that does not unwrap a slice.
mapRoots_NoUnwrap(v, cache, maproots) ==
    [fault |-> "", cache |-> cache, nodes |-> << maproots >>]

\* The reflect.Map case of Roots for a map that has the key "roots": a
\* slice is unwrapped by Roots, anything else is the sole root.
mapRoots(v, cache, maproots) ==
    IF maproots.kind = "slice"
    THEN Roots(v, cache, maproots)
    ELSE [fault |-> "", cache |-> cache, nodes |-> << maproots >>]

\* v.Roots(roots)
Roots(v, cache, roots) ==
    LET rv == Indirect(roots)
        structRoots(si) ==
            IF si.sf.RootsPath = NilPath
            THEN [fault |-> "", cache |-> si.cache, nodes |-> << roots >>]
            ELSE Roots(v, si.cache, FieldByIndex(rv, si.sf.RootsPath))
        rootsOfMap(maproots) ==
            IF maproots.kind = "invalid"
            THEN [fault |-> "", cache |-> cache, nodes |-> << roots >>]
            ELSE mapRoots(v, cache, maproots)
    IN
    CASE rv.kind = "slice" ->
            IF ~v.SortNodes
            THEN [fault |-> "", cache |-> cache, nodes |-> anySlice(rv)]
            ELSE sortedNodes(cache, anySlice(rv))
      [] rv.kind = "struct" -> structRoots(structFieldInfo(cache, rv))
      [] rv.kind = "map" -> rootsOfMap(MapIndex(rv, "roots"))
      [] OTHER -> [fault |-> FaultRoots, cache |-> cache, nodes |-> << >>]

\* v.nodeDetails(node)
nodeDetails(v, cache, node) ==
    LET n == Indirect(node)
        none == [fault |-> "", cache |-> cache, label |-> << >>,
                 properties |-> << >>, children |-> << >>]
        withSorted(got, sn) ==
            [got EXCEPT !.children = sn.nodes, !.cache = sn.cache, !.fault = sn.fault]
        structChildren(got, cs) ==
            IF ~v.SortNodes THEN [got EXCEPT !.children = cs]
            ELSE withSorted(got, sortedNodes(got.cache, cs))
        structRest(si, got, pf) ==
            IF ~(pf.kind = "slice" /\ pf.of = "string")
            THEN [got EXCEPT !.fault = FaultProps]
            ELSE IF si.sf.ChildrenPath = NilPath
            THEN [got EXCEPT !.properties = pf.elems]
            ELSE structChildren([got EXCEPT !.properties = pf.elems],
                                anySlice(FieldByIndex(n, si.sf.ChildrenPath)))
        structDetails(si) ==
            structRest(si,
                [none EXCEPT !.cache = si.cache,
                             !.label = IF si.sf.LabelPath = NilPath THEN << >>
                                       ELSE ValueString(FieldByIndex(n, si.sf.LabelPath))],
                IF si.sf.PropertiesPath = NilPath THEN StringsV(<< >>)
                ELSE FieldByIndex(n, si.sf.PropertiesPath))
        mapChildren(got, chs) ==
            IF chs.kind = "invalid" THEN got
            ELSE IF ~v.SortNodes THEN [got EXCEPT !.children = anySlice(chs)]
            ELSE withSorted(got, sortedNodes(cache, anySlice(chs)))
        mapDetails(lbl, pps) ==
            mapChildren(
                [none EXCEPT !.label = IF lbl.kind = "string" /\ lbl.typ = "string"
                                       THEN lbl.s ELSE << >>,
                             !.properties = IF pps.kind = "slice" /\ pps.of = "string"
                                            THEN pps.elems ELSE << >>],
                MapIndex(n, "children"))
    IN
    CASE n.kind = "struct" -> structDetails(structFieldInfo(cache, n))
      [] n.kind = "map" -> mapDetails(MapIndex(n, "label"), MapIndex(n, "properties"))
      [] OTHER -> [none EXCEPT !.fault = FaultNode]

\* v.Get(node): nodeDetails, the properties cloned and sorted when asked for.
Get(v, cache, node) ==
    LET sortProps(d) ==
            IF d.fault = "" /\ v.SortProperties
            THEN [d EXCEPT !.properties = SortStrings(d.properties)]
            ELSE d
    IN sortProps(nodeDetails(v, cache, node))

-----------------------------------------------------------------------------
(* TreeStyle and TreeStyler                                                *)

ASCIIStyle ==
    [Fork |-> << "+" >>, Nodeconn |-> << "-" >>, Nofork |-> << "|" >>,
     Lastnode |-> << Grave >>, Property |-> << "*" >>]

\* The characters of LineStyle are named by their code points.
LineStyle ==
    [Fork |-> << "U+251C" >>, Nodeconn |-> << "U+2500" >>, Nofork |-> << "U+2502" >>,
     Lastnode |-> << "U+2514" >>, Property |-> << "U+2022" >>]

DefaultChildIndent == 3
DefaultPropIndent == 3

\* NewTreeStyler(style)
NewTreeStyler(style) ==
    [Style |-> style, ChildIndent |-> DefaultChildIndent, PropIndent |-> DefaultPropIndent]

DefaultTreeStyler == NewTreeStyler(ASCIIStyle)
LineTreeStyler == NewTreeStyler(LineStyle)

renderNodeLabel(s, label) == label

renderBranchedNode(s, label) ==
    s.Style.Fork \o repeat(s.Style.Nodeconn, s.ChildIndent - 2) \o << " " >> \o label

renderLastNode(s, label) ==
    s.Style.Lastnode \o repeat(s.Style.Nodeconn, s.ChildIndent - 2) \o << " " >> \o label

indentLine(s, line) ==
    s.Style.Nofork \o repeat(<< " " >>, s.ChildIndent - 2) \o << " " >> \o line

indentLineLastNode(s, line) == repeat(<< " " >>, s.ChildIndent) \o line

renderProperty(s, prop) == prop

renderPropertyNoChildrenFollowing(s, prop) ==
    repeat(<< " " >>, s.PropIndent) \o s.Style.Property \o << " " >> \o prop

\* renderPropertyChildrenFollowing with PropIndent blanks behind the no-fork
\* glyph.
renderPropertyChildrenFollowing_Wide(s, prop) ==
    s.Style.Nofork \o repeat(<< " " >>, s.PropIndent) \o s.Style.Property
        \o << " " >> \o prop

renderPropertyChildrenFollowing(s, prop) ==
    s.Style.Nofork \o repeat(<< " " >>, s.PropIndent - 1) \o s.Style.Property
        \o << " " >> \o prop

-----------------------------------------------------------------------------
(* renderSubtree and Render                                                *)

\* A frame that takes its node for a leaf, whatever children Get returned.
Frame_Leaf(d) ==
    [label |-> d.label, props |-> d.properties, children |-> << >>,
     pi |-> 0, idx |-> 1, first |-> TRUE]

\* One active renderSubtree iterator: what Get returned for its node, the
\* number of properties produced so far (pi), the index of the child being
\* rendered (idx, the next child to render when this iterator is innermost),
\* and whether the loop variable style still is the first-line style (first).
Frame(d) ==
    [label |-> d.label, props |-> d.properties, children |-> d.children,
     pi |-> 0, idx |-> 1, first |-> TRUE]

\* Whether the child a frame is rendering is its last one (idx == last).
OnLastChild(f) == f.idx = Len(f.children)

\* A childStyle that continues the vertical line below a last child too.
childStyle_AlwaysLine(s, f, line) ==
    IF f.first
    THEN IF OnLastChild(f) THEN renderLastNode(s, line) ELSE renderBranchedNode(s, line)
    ELSE indentLine(s, line)

\* The style the loop over a child's lines applies to the next line.
childStyle(s, f, line) ==
    IF f.first
    THEN IF OnLastChild(f) THEN renderLastNode(s, line) ELSE renderBranchedNode(s, line)
    ELSE IF OnLastChild(f) THEN indentLineLastNode(s, line) ELSE indentLine(s, line)

RECURSIVE yieldThrough(_, _, _)
\* A line produced below the frames fs travels outwards through each of
\* them, innermost (last) first; each restyles it with its current style.
yieldThrough(s, fs, line) ==
    IF fs = << >> THEN line
    ELSE yieldThrough(s, SubSeq(fs, 1, Len(fs) - 1), childStyle(s, fs[Len(fs)], line))

\* afterYield without `style = styleButFirst`.
afterYield_KeepsStyle(fs) == fs

\* After a line went through them, every frame continues with styleButFirst.
afterYield(fs) == [i \in 1..Len(fs) |-> [fs[i] EXCEPT !.first = FALSE]]

\* The lines joined by newlines, none after the last line.
writeLine_Joined(builder, line) ==
    IF builder = << >> THEN line ELSE builder \o << "\n" >> \o line

\* result.WriteString(line); result.WriteRune('\n')
writeLine(builder, line) == builder \o line \o << "\n" >>

RECURSIVE renderRoots_AnyRoot(_, _, _)
\* The switch of Render with a default case that takes the value as a root.
renderRoots_AnyRoot(v, cache, roots) ==
    LET rv == Indirect(roots)
        rootsOfMap(maproots) ==
            IF maproots.kind = "invalid"
            THEN [fault |-> "", cache |-> cache, nodes |-> << roots >>]
            ELSE renderRoots_AnyRoot(v, cache, maproots)
    IN
    CASE rv.kind = "slice" -> Roots(v, cache, roots)
      [] rv.kind = "map" -> rootsOfMap(MapIndex(rv, "roots"))
      [] OTHER -> [fault |-> "", cache |-> cache, nodes |-> << roots >>]

RECURSIVE renderRoots(_, _, _)
\* The switch of Render: the nodes it renders as top-level trees.
renderRoots(v, cache, roots) ==
    LET rv == Indirect(roots)
        rootsOfMap(maproots) ==
            IF maproots.kind = "invalid"
            THEN [fault |-> "", cache |-> cache, nodes |-> << roots >>]
            ELSE renderRoots(v, cache, maproots)
    IN
    CASE rv.kind = "slice" -> Roots(v, cache, roots)
      [] rv.kind = "struct" -> [fault |-> "", cache |-> cache, nodes |-> << roots >>]
      [] rv.kind = "map" -> rootsOfMap(MapIndex(rv, "roots"))
      [] OTHER -> [fault |-> FaultRender, cache |-> cache, nodes |-> << >>]

Panic(f) ==
    /\ pc' = "panic"
    /\ fault' = f

\* Render(roots, visitor, styler) is called: the roots are resolved.
Render ==
    /\ pc = "start"
    /\ op' = "Render"
    /\ LET resolved(r) ==
               /\ structFieldsCache' = r.cache
               /\ IF r.fault # ""
                  THEN Panic(r.fault) /\ UNCHANGED rootsList
                  ELSE pc' = "render" /\ rootsList' = r.nodes /\ UNCHANGED fault
       IN resolved(renderRoots(visitor, structFieldsCache, input))
    /\ UNCHANGED << input, orig, visitor, styler, heap, callers, history,
                    fieldCache, rootIdx, stack, result, ret >>

\* enterSubtree that recovers from the visitor's panic and has Render
\* return what the builder holds.
enterSubtree_Recovers(fs, node) ==
    LET entered(d) ==
            /\ structFieldsCache' = d.cache
            /\ IF d.fault # ""
               THEN /\ pc' = "done"
                    /\ ret' = [kind |-> "text", text |-> result]
                    /\ UNCHANGED << stack, result, fault >>
               ELSE /\ result' = writeLine(result,
                                    yieldThrough(styler, fs, renderNodeLabel(styler, d.label)))
                    /\ stack' = Append(afterYield(fs), Frame(d))
                    /\ UNCHANGED << pc, fault, ret >>
    IN entered(Get(visitor, structFieldsCache, node))

\* renderSubtree(node) is called below the frames fs and its first line, the
\* label, is produced: Get runs before any line of the node is.
enterSubtree(fs, node) ==
    LET entered(d) ==
            /\ structFieldsCache' = d.cache
            /\ IF d.fault # ""
               THEN Panic(d.fault) /\ UNCHANGED << stack, result, ret >>
               ELSE /\ result' = writeLine(result,
                                    yieldThrough(styler, fs, renderNodeLabel(styler, d.label)))
                    /\ stack' = Append(afterYield(fs), Frame(d))
                    /\ UNCHANGED << pc, fault, ret >>
    IN entered(Get(visitor, structFieldsCache, node))

\* The loop over the roots starts rendering roots[rootIdx].
RenderRoot ==
    /\ pc = "render"
    /\ stack = << >>
    /\ rootIdx <= Len(rootsList)
    /\ enterSubtree(<< >>, rootsList[rootIdx])
    /\ UNCHANGED << input, orig, visitor, styler, heap, callers, history,
                    fieldCache, op, rootsList, rootIdx >>

\* renderProp with the test on the children inverted.
renderProp_Inverted(s, f, prop) ==
    IF Len(f.children) # 0
    THEN renderPropertyNoChildrenFollowing(s, prop)
    ELSE renderPropertyChildrenFollowing(s, prop)

\* renderProp: the property style renderSubtree picks for a node's lines.
renderProp(s, f, prop) ==
    IF Len(f.children) = 0
    THEN renderPropertyNoChildrenFollowing(s, prop)
    ELSE renderPropertyChildrenFollowing(s, prop)

\* The innermost iterator produces its next property line.
YieldProperty ==
    /\ pc = "render"
    /\ stack # << >>
    /\ LET n == Len(stack)
           f == stack[n]
       IN /\ f.pi < Len(f.props)
          /\ result' = writeLine(result,
                          yieldThrough(styler, SubSeq(stack, 1, n - 1),
                              renderProp(styler, f, renderProperty(styler, f.props[f.pi + 1]))))
          /\ stack' = Append(afterYield(SubSeq(stack, 1, n - 1)),
                             [f EXCEPT !.pi = f.pi + 1])
    /\ UNCHANGED << input, orig, visitor, styler, heap, callers, history,
                    fieldCache, structFieldsCache, pc, op,
                    rootsList, rootIdx, ret, fault >>

\* The innermost iterator starts on its next child: style is set to the
\* first-line style and the child's subtree is entered.
RenderChild ==
    /\ pc = "render"
    /\ stack # << >>
    /\ LET n == Len(stack)
           f == stack[n]
       IN /\ f.pi = Len(f.props)
          /\ f.idx <= Len(f.children)
          /\ enterSubtree([stack EXCEPT ![n].first = TRUE], f.children[f.idx])
    /\ UNCHANGED << input, orig, visitor, styler, heap, callers, history,
                    fieldCache, op, rootsList, rootIdx >>

\* The innermost iterator is exhausted: the loop that ranges over it goes
\* on to the next child, or to the next root.
SubtreeDone ==
    /\ pc = "render"
    /\ stack # << >>
    /\ LET n == Len(stack)
           f == stack[n]
       IN /\ f.pi = Len(f.props)
          /\ f.idx > Len(f.children)
          /\ IF n = 1
             THEN stack' = << >> /\ rootIdx' = rootIdx + 1
             ELSE /\ stack' = Append(SubSeq(stack, 1, n - 2),
                                     [stack[n - 1] EXCEPT !.idx = stack[n - 1].idx + 1])
                  /\ UNCHANGED rootIdx
    /\ UNCHANGED << input, orig, visitor, styler, heap, callers, history,
                    fieldCache, structFieldsCache, pc, op,
                    rootsList, result, ret, fault >>

\* return result.String()
RenderReturn ==
    /\ pc = "render"
    /\ stack = << >>
    /\ rootIdx > Len(rootsList)
    /\ pc' = "done"
    /\ ret' = [kind |-> "text", text |-> result]
    /\ UNCHANGED << input, orig, visitor, styler, heap, callers, history,
                    fieldCache, structFieldsCache, op,
                    rootsList, rootIdx, stack, result, fault >>

-----------------------------------------------------------------------------
(* Direct calls of the visitor                                             *)

\* v.Roots(input)
CallRoots ==
    /\ pc = "start"
    /\ op' = "Roots"
    /\ LET returned(r) ==
               /\ structFieldsCache' = r.cache
               /\ IF r.fault # ""
                  THEN Panic(r.fault) /\ UNCHANGED ret
                  ELSE pc' = "done" /\ ret' = [kind |-> "nodes", nodes |-> r.nodes]
                                    /\ UNCHANGED fault
       IN returned(Roots(visitor, structFieldsCache, input))
    /\ UNCHANGED << input, orig, visitor, styler, heap, callers, history,
                    fieldCache, rootsList, rootIdx, stack, result >>

\* v.Label(input)
CallLabel ==
    /\ pc = "start"
    /\ op' = "Label"
    /\ LET returned(r) ==
               /\ structFieldsCache' = r.cache
               /\ IF r.fault # ""
                  THEN Panic(r.fault) /\ UNCHANGED ret
                  ELSE pc' = "done" /\ ret' = [kind |-> "label", label |-> r.label]
                                    /\ UNCHANGED fault
       IN returned(Label(structFieldsCache, input))
    /\ UNCHANGED << input, orig, visitor, styler, heap, callers, history,
                    fieldCache, rootsList, rootIdx, stack, result >>

\* v.Get(input)
CallGet ==
    /\ pc = "start"
    /\ op' = "Get"
    /\ LET returned(r) ==
               /\ structFieldsCache' = r.cache
               /\ IF r.fault # ""
                  THEN Panic(r.fault) /\ UNCHANGED ret
                  ELSE pc' = "done" /\ UNCHANGED fault
                                    /\ ret' = [kind |-> "details", label |-> r.label,
                                               properties |-> r.properties,
                                               children |-> r.children]
       IN returned(Get(visitor, structFieldsCache, input))
    /\ UNCHANGED << input, orig, visitor, styler, heap, callers, history,
                    fieldCache, rootsList, rootIdx, stack, result >>

-----------------------------------------------------------------------------
(* The reflect.Value API: the field cache                                  *)

FaultDoubleAnon == "double asciitree tag for anonymously embedded type"
FaultDoubleTag == "double asciitree tag for type"
FaultInvalidTag == "invalid asciitree tag(s)"
FaultLen == "reflect: call of reflect.Value.Len on a value that has no length"

RECURSIVE SplitComma(_, _, _)
\* strings.Split(tagval, ","): cur is the piece being read, acc the pieces read.
SplitComma(s, cur, acc) ==
    IF s = << >> THEN Append(acc, cur)
    ELSE IF Head(s) = "," THEN SplitComma(Tail(s), << >>, Append(acc, cur))
    ELSE SplitComma(Tail(s), Append(cur, Head(s)), acc)

IsSpace(c) == c \in { " ", "\n", "\t" }

RECURSIVE TrimSpace(_)
\* strings.TrimSpace(value)
TrimSpace(s) ==
    IF s = << >> THEN s
    ELSE IF IsSpace(Head(s)) THEN TrimSpace(Tail(s))
    ELSE IF IsSpace(s[Len(s)]) THEN TrimSpace(SubSeq(s, 1, Len(s) - 1))
    ELSE s

WellKnownTags == { TagRoots, TagLabel, TagProperties, TagChildren }

\* An asciitreeTagValues that returns every item, valid or not, when one of
\* them is invalid.
asciitreeTagValues_AllItems(tagval) ==
    LET trimmed(vals) == [i \in 1..Len(vals) |-> TrimSpace(vals[i])]
        IsItem(x) == x # << >>
        IsError(x) == x # << >> /\ x \notin WellKnownTags
    IN [tags |-> SelectSeq(trimmed(SplitComma(tagval, << >>, << >>)), IsItem),
        ok |-> SelectSeq(trimmed(SplitComma(tagval, << >>, << >>)), IsError) = << >>]

\* asciitreeTagValues(tagval): the valid tag values and ok, or the invalid
\* ones and not ok.
asciitreeTagValues(tagval) ==
    LET trimmed(vals) == [i \in 1..Len(vals) |-> TrimSpace(vals[i])]
        IsValue(x) == x \in WellKnownTags
        IsError(x) == x # << >> /\ x \notin WellKnownTags
        sorted(vals) ==
            IF SelectSeq(vals, IsError) # << >>
            THEN [tags |-> SelectSeq(vals, IsError), ok |-> FALSE]
            ELSE [tags |-> SelectSeq(vals, IsValue), ok |-> TRUE]
    IN sorted(trimmed(SplitComma(tagval, << >>, << >>)))

\* &fieldCacheItem{-1, -1, -1, -1}
NewFieldCacheItem ==
    [labelIndex |-> -1, propertiesIndex |-> -1, childrenIndex |-> -1, rootsIndex |-> -1]

\* The index a tag value sets.
IndexOfTag(tag) ==
    CASE tag = TagLabel -> "labelIndex"
      [] tag = TagProperties -> "propertiesIndex"
      [] tag = TagChildren -> "childrenIndex"
      [] tag = TagRoots -> "rootsIndex"

\* One `if sinfo.xIndex >= 0 { panic } sinfo.xIndex = idx` on the scan state
\* st (fault, cache, sinfo).
setIndex(st, name, idx, msg) ==
    IF st.fault # "" THEN st
    ELSE IF st.sinfo[name] >= 0 THEN [st EXCEPT !.fault = msg]
    ELSE [st EXCEPT !.sinfo[name] = idx]

RECURSIVE takeAnon(_, _, _)
\* The four `if anon.xIndex >= 0` blocks for an embedded struct.
takeAnon(st, anon, names) ==
    IF names = << >> THEN st
    ELSE takeAnon(IF anon[Head(names)] >= 0
                  THEN setIndex(st, Head(names), anon[Head(names)], FaultDoubleAnon)
                  ELSE st,
                  anon, Tail(names))

RECURSIVE takeTags(_, _, _)
\* for _, tag := range tags
takeTags(st, tags, idx) ==
    IF tags = << >> THEN st
    ELSE takeTags(setIndex(st, IndexOfTag(Head(tags)), idx, FaultDoubleTag), Tail(tags), idx)

RECURSIVE structInfo(_, _)
RECURSIVE scanFields(_, _, _)
\* The loop of structInfo over the fields of node from (Go) index idx on.
scanFields(node, st, idx) ==
    IF st.fault # "" \/ idx >= Len(StructTypes[node.typ]) THEN st
    ELSE LET embedded(field, anon) ==
                IF ~(field.kind = "struct" /\ field.anonymous) THEN st
                ELSE IF anon.fault # "" THEN [st EXCEPT !.fault = anon.fault,
                                                        !.cache = anon.cache]
                ELSE takeAnon([st EXCEPT !.cache = anon.cache], anon.sinfo,
                              << "labelIndex", "propertiesIndex",
                                 "childrenIndex", "rootsIndex" >>)
             tagged(st1, tv) ==
                IF st1.fault # "" THEN st1
                ELSE IF ~tv.ok THEN [st1 EXCEPT !.fault = FaultInvalidTag]
                ELSE takeTags(st1, tv.tags, idx)
             step(field) ==
                tagged(embedded(field, structInfo(st.cache, node.fields[idx + 1])),
                       asciitreeTagValues(IF field.hasTag THEN field.tag ELSE << >>))
         IN scanFields(node, step(StructTypes[node.typ][idx + 1]), idx + 1)

\* A structInfo that caches the item the scan had built when it panicked.
structInfo_CachesFaulty(cache, node) ==
    IF node.kind # "struct" THEN [fault |-> "", cache |-> cache, sinfo |-> NoValue]
    ELSE IF node.typ \in DOMAIN cache
    THEN [fault |-> "", cache |-> cache, sinfo |-> cache[node.typ]]
    ELSE LET cached(st) == [st EXCEPT !.cache = (node.typ :> st.sinfo) @@ st.cache]
         IN cached(scanFields(node,
                [fault |-> "", cache |-> cache, sinfo |-> NewFieldCacheItem], 0))

\* structInfo(node): nil for what is no struct, the cached item, or the item
\* the scan finds, which is cached.
structInfo(cache, node) ==
    IF node.kind # "struct" THEN [fault |-> "", cache |-> cache, sinfo |-> NoValue]
    ELSE IF node.typ \in DOMAIN cache
    THEN [fault |-> "", cache |-> cache, sinfo |-> cache[node.typ]]
    ELSE LET cached(st) ==
                IF st.fault # "" THEN st
                ELSE [st EXCEPT !.cache = (node.typ :> st.sinfo) @@ st.cache]
         IN cached(scanFields(node,
                [fault |-> "", cache |-> cache, sinfo |-> NewFieldCacheItem], 0))

-----------------------------------------------------------------------------
(* The reflect.Value API: the visitor                                      *)
(* Slices of nodes are typed ([]Node, []*Node, []M), so that Index yields  *)
(* the element itself.                                                     *)

RECURSIVE insertLess(_, _)
\* The inner loop of the insertion sort sort.Sort runs on fewer than 12
\* elements: x moves down while labels[j] < labels[j-1].
insertLess(sorted, x) ==
    IF sorted = << >> THEN << x >>
    ELSE IF Compare(x.Label, sorted[Len(sorted)].Label) < 0
    THEN Append(insertLess(SubSeq(sorted, 1, Len(sorted) - 1), x), sorted[Len(sorted)])
    ELSE Append(sorted, x)

RECURSIVE sortSort(_)
\* sort.Sort(list)
sortSort(l) ==
    IF l = << >> THEN << >>
    ELSE insertLess(sortSort(SubSeq(l, 1, Len(l) - 1)), l[Len(l)])

RECURSIVE getNodeData(_, _, _, _)
RECURSIVE labelsOf(_, _, _, _)
\* The loop of sortNodes that fetches the labels, stopping at the first node
\* Label panics on.
labelsOf(v, cache, nodes, acc) ==
    IF nodes = << >> THEN [fault |-> "", cache |-> cache, labelled |-> acc]
    ELSE LET labelled(l) ==
                IF l.fault # "" THEN [fault |-> l.fault, cache |-> l.cache, labelled |-> acc]
                ELSE labelsOf(v, l.cache, Tail(nodes),
                              Append(acc, [Label |-> l.label, Node |-> Head(nodes)]))
         IN labelled(getNodeData(v, cache, Head(nodes), TRUE))

\* sortNodes(v, nodes, copy): the slice sorted by label. With copy the
\* caller's slice is left alone and a new one is returned (inPlace FALSE);
\* without, the slice passed is the one that is sorted.
sortNodes(v, cache, nodes, copy) ==
    LET ns == Indirect(nodes)
        nodesOf(sorted) == SliceV([i \in 1..Len(sorted) |-> sorted[i].Node])
        sortLabelled(ln) ==
            IF ln.fault # ""
            THEN [fault |-> ln.fault, cache |-> ln.cache, nodes |-> ns, inPlace |-> FALSE]
            ELSE [fault |-> "", cache |-> ln.cache, nodes |-> nodesOf(sortSort(ln.labelled)),
                  inPlace |-> ~copy]
    IN IF ns.kind # "slice"
       THEN [fault |-> FaultLen, cache |-> cache, nodes |-> ns, inPlace |-> FALSE]
       ELSE IF Len(ns.elems) = 0
       THEN [fault |-> "", cache |-> cache, nodes |-> ns, inPlace |-> FALSE]
       ELSE sortLabelled(labelsOf(v, cache, anySlice(ns), << >>))

\* getNodeData(v, node, labelOnly). propsAt tells which slice of the node
\* the properties returned are (they share its elements): the struct field
\* of that (Go) index, the map entry of that key, or none (a nil slice).
getNodeData(v, cache, node, labelOnly) ==
    LET n == Indirect(node)
        none == [fault |-> "", cache |-> cache, label |-> << >>,
                 properties |-> << >>, propsAt |-> << >>, children |-> Invalid]
        withSorted(got, sn) ==
            [got EXCEPT !.children = sn.nodes, !.cache = sn.cache, !.fault = sn.fault]
        sortedChildren(got, children) ==
            IF ~v.SortNodes THEN [got EXCEPT !.children = children]
            ELSE withSorted(got, sortNodes(v, got.cache, children, TRUE))
        structChildren(fci, got) ==
            IF got.fault # "" \/ fci.childrenIndex < 0 THEN got
            ELSE sortedChildren(got, n.fields[fci.childrenIndex + 1])
        structProperties(fci, got, pf) ==
            IF fci.propertiesIndex < 0 THEN got
            ELSE IF ~(pf.kind = "slice" /\ pf.of = "string")
            THEN [got EXCEPT !.fault = FaultProps]
            ELSE [got EXCEPT !.properties = pf.elems,
                             !.propsAt = << fci.propertiesIndex >>]
        structLabelled(fci, got) ==
            IF labelOnly THEN got
            ELSE structChildren(fci,
                    structProperties(fci, got,
                        IF fci.propertiesIndex < 0 THEN Invalid
                        ELSE n.fields[fci.propertiesIndex + 1]))
        structData(si) ==
            IF si.fault # "" THEN [none EXCEPT !.fault = si.fault, !.cache = si.cache]
            ELSE structLabelled(si.sinfo,
                    [none EXCEPT !.cache = si.cache,
                                 !.label = IF si.sinfo.labelIndex < 0 THEN << >>
                                           ELSE ValueString(n.fields[si.sinfo.labelIndex + 1])])
        mapChildren(got, chs) ==
            IF got.fault # "" \/ labelOnly THEN got
            ELSE IF chs.kind = "invalid" THEN [got EXCEPT !.children = SliceV(<< >>)]
            ELSE sortedChildren(got, chs)
        mapProperties(got, pps) ==
            IF got.fault # "" \/ pps.kind = "invalid" THEN got
            ELSE IF ~(pps.kind = "slice" /\ pps.of = "string")
            THEN [got EXCEPT !.fault = FaultProps]
            ELSE [got EXCEPT !.properties = pps.elems, !.propsAt = << "properties" >>]
        mapLabel(lbl) ==
            IF lbl.kind = "invalid" THEN none
            ELSE IF lbl.kind # "string" \/ lbl.typ # "string"
            THEN [none EXCEPT !.fault = FaultLabel]
            ELSE [none EXCEPT !.label = lbl.s]
    IN
    CASE n.kind = "struct" -> structData(structInfo(cache, n))
      [] n.kind = "map" ->
            mapChildren(mapProperties(mapLabel(MapIndex(n, "label")),
                                      MapIndex(n, "properties")),
                        MapIndex(n, "children"))
      [] OTHER -> [none EXCEPT !.fault = FaultNode]

\* Label(node) of the reflect.Value API
LabelV1(v, cache, node) == getNodeData(v, cache, node, TRUE)

RECURSIVE storeStrings(_, _, _)
\* The node after the strings of its slice at `at` were overwritten with ss.
storeStrings(node, at, ss) ==
    IF at = << >> THEN node
    ELSE IF node.kind = "ptr" THEN PtrV(storeStrings(node.elem, at, ss))
    ELSE IF node.kind = "struct" THEN [node EXCEPT !.fields[at[1] + 1] = StringsV(ss)]
    ELSE [node EXCEPT !.m[at[1]] = StringsV(ss)]

\* Get(node) of the reflect.Value API: getNodeData, then sort.Strings on the
\* properties it returned, which sorts the elements of the node's own slice.
\* node is the caller's node after the call.
GetV1(v, cache, node) ==
    LET sortProps(d) ==
            IF d.fault = "" /\ v.SortProperties
            THEN [fault |-> "", cache |-> d.cache, label |-> d.label,
                  properties |-> SortStrings(d.properties), children |-> d.children,
                  node |-> storeStrings(node, d.propsAt, SortStrings(d.properties))]
            ELSE [fault |-> d.fault, cache |-> d.cache, label |-> d.label,
                  properties |-> d.properties, children |-> d.children,
                  node |-> node]
    IN sortProps(getNodeData(v, cache, node, FALSE))

\* v.Get(reflect.ValueOf(input)) of the reflect.Value API
CallGetV1 ==
    /\ pc = "start"
    /\ op' = "GetV1"
    /\ LET returned(r) ==
               /\ fieldCache' = r.cache
               /\ IF r.fault # ""
                  THEN Panic(r.fault) /\ UNCHANGED << ret, input >>
                  ELSE /\ pc' = "done"
                       /\ input' = r.node
                       /\ ret' = [kind |-> "details", label |-> r.label,
                                  properties |-> r.properties,
                                  children |-> r.children]
                       /\ UNCHANGED fault
       IN returned(GetV1(visitor, fieldCache, input))
    /\ UNCHANGED << orig, visitor, styler, heap, callers, history, structFieldsCache,
                    rootsList, rootIdx, stack, result >>

-----------------------------------------------------------------------------
(* The caller's data                                                       *)

\* Bounds of the model: the number of nodes of the caller's trees.
MaxNodes == 3

LabelA == << "a" >>
LabelB == << "b" >>
PropP == << "p" >>
PropQ == << "q" >>

\* What a node of the caller's data carries: a label and properties.
NodeKinds ==
    { [label |-> LabelA, props |-> << >>],
      [label |-> LabelB, props |-> << >>],
      [label |-> LabelA, props |-> << PropQ, PropP >>] }

\* A value that is no node: the 42 of the tests.
BadNode == [bad |-> TRUE]

RECURSIVE ForestsOf(_)
\* The forests (sequences of trees) of exactly n nodes.
ForestsOf(n) ==
    IF n = 0 THEN { << >> }
    ELSE UNION { { << t >> \o f :
                     t \in { [bad |-> FALSE, label |-> k.label, props |-> k.props,
                              children |-> c] :
                                k \in NodeKinds, c \in ForestsOf(m - 1) }
                            \cup (IF m = 1 THEN { BadNode } ELSE { }),
                     f \in ForestsOf(n - m) } : m \in 1..n }

Forests == UNION { ForestsOf(n) : n \in 0..MaxNodes }

OnlyKeys(m, keys) == [k \in keys |-> m[k]]

RECURSIVE Concrete(_, _)
\* A tree as Go data: Node structs, references to Node structs
\* (Subnodes []*Node), or map[string]any with the well-known keys (a key is
\* left out when it would hold nothing).
Concrete(t, rep) ==
    IF t.bad THEN IntV(42)
    ELSE LET cs == [i \in 1..Len(t.children) |-> Concrete(t.children[i], rep)] IN
         CASE rep = "struct" ->
                StructV("Node", << StringV(t.label), StringsV(t.props), SliceV(cs) >>)
           [] rep = "ptr" ->
                PtrV(StructV("Node", << StringV(t.label), StringsV(t.props), SliceV(cs) >>))
           [] rep = "map" ->
                MapV(OnlyKeys([label |-> StringV(t.label), properties |-> StringsV(t.props),
                               children |-> SliceV(cs)],
                              {"label"} \cup (IF t.props = << >> THEN {} ELSE {"properties"})
                                        \cup (IF t.children = << >> THEN {} ELSE {"children"})))

Reps == { "struct", "ptr", "map" }

ConcreteForest(f, rep) == [i \in 1..Len(f) |-> Concrete(f[i], rep)]

\* Values that make the visitor introspect a struct type: the zero value of
\* each type declared besides Node and R, a reference to a struct{}, and the
\* empty map.
ShapeInputs ==
    { ZeroOf(t) : t \in DOMAIN StructTypes \ { "Node", "R" } }
    \cup { PtrV(ZeroOf("Empty")), MapV(<< >>) }

\* The trees of one or two nodes.
SmallTrees ==
    { f[1] : f \in { g \in ForestsOf(1) \cup ForestsOf(2) : Len(g) = 1 /\ ~g[1].bad } }

\* A Node embedded in another struct, and that struct embedded in a third.
EmbNodeV(t) == StructV("EmbNode", << Concrete(t, "struct"), [kind |-> "bool", v |-> FALSE] >>)
Emb2NodeV(t) == StructV("Emb2Node", << [kind |-> "bool", v |-> FALSE], EmbNodeV(t) >>)

EmbInputs == { EmbNodeV(t) : t \in SmallTrees } \cup { Emb2NodeV(t) : t \in SmallTrees }

\* Mappings whose "label" holds something that is no string: a number, a
\* value of a defined string type; alone and next to properties.
LabelInputs ==
    { MapV([label |-> l]) : l \in { IntV(42), TextV(LabelA) } }
    \cup { MapV([label |-> l, properties |-> StringsV(<< PropQ, PropP >>)]) :
              l \in { IntV(42), TextV(LabelA) } }

\* What a caller passes: a slice of nodes, a single node, a roots map
\* holding a slice of nodes or a single node, a struct with a roots field,
\* and values that are neither.
Inputs ==
    { SliceV(ConcreteForest(f, rep)) : f \in Forests, rep \in Reps }
    \cup { Concrete(f[1], rep) : f \in { g \in Forests : Len(g) = 1 }, rep \in Reps }
    \cup { MapV([roots |-> SliceV(ConcreteForest(f, "map"))]) : f \in Forests }
    \cup { MapV([roots |-> Concrete(f[1], "map")]) : f \in { g \in Forests : Len(g) = 1 } }
    \cup { StructV("R", << SliceV(ConcreteForest(f, "struct")) >>) : f \in Forests }
    \cup { Invalid, PtrV(IntV(42)), StringV(LabelA) }
    \cup ShapeInputs
    \cup EmbInputs
    \cup LabelInputs

Visitors == [SortNodes : BOOLEAN, SortProperties : BOOLEAN]

\* DefaultVisitor = &MapStructVisitor{}
DefaultVisitor == [SortNodes |-> FALSE, SortProperties |-> FALSE]

\* The stylers Render is called with: DefaultTreeStyler, and LineTreeStyler
\* by RenderFancy.
Stylers == { DefaultTreeStyler, LineTreeStyler }

Init ==
    /\ input \in Inputs
    /\ orig = input
    /\ visitor \in Visitors
    /\ styler \in Stylers
    /\ styler = LineTreeStyler => visitor = DefaultVisitor
    /\ structFieldsCache = << >>
    /\ fieldCache = << >>
    /\ heap = << >>
    /\ callers = << >>
    /\ history = << >>
    /\ pc = "start"
    /\ op = ""
    /\ rootsList = << >>
    /\ rootIdx = 1
    /\ stack = << >>
    /\ result = << >>
    /\ ret = NoValue
    /\ fault = ""

Next ==
    \/ Render
    \/ RenderRoot
    \/ YieldProperty
    \/ RenderChild
    \/ SubtreeDone
    \/ RenderReturn
    \/ CallRoots
    \/ CallLabel
    \/ CallGet
    \/ CallGetV1

Spec == Init /\ [][Next]_vars

-----------------------------------------------------------------------------
(* Concurrent introspection of struct types                                *)
(* Several goroutines call structInfoCache (any API) or structInfo         *)
(* (reflect.Value API) at once. Entries are objects of the heap, known by  *)
(* their index, and here the caches hold these indices: two entries can be *)
(* equal and still be two objects.                                         *)

\* Bounds: the number of goroutines introspecting concurrently.
NumCallers == 3

Callers == 1..NumCallers

\* The struct types the goroutines introspect.
CacheShapes == { "Node", "R" }

NoRef == 0

\* What the introspection does not touch.
renderVars ==
    << input, orig, visitor, styler, history, pc, op, rootsList, rootIdx, stack,
       result, ret, fault >>

\* A goroutine that has not called yet.
IdleCaller ==
    [pc |-> "idle", api |-> "", typ |-> "", seen |-> NoRef, obj |-> NoRef,
     after |-> FALSE, ret |-> NoRef]

\* Whether an introspection of the type by that API has already returned.
Completed(api, t) ==
    \E q \in Callers :
        callers[q].pc = "returned" /\ callers[q].api = api /\ callers[q].typ = t

\* A new entry in the heap: not filled in, not published.
NewEntry(api, t, item) ==
    [api |-> api, typ |-> t, item |-> item, filled |-> FALSE,
     published |-> FALSE, atPublish |-> item]

\* A cache hit that hands out a copy of the entry it found.
loadHit_Copy(p, api, t, ref) ==
    /\ heap' = Append(heap, [heap[ref] EXCEPT !.published = FALSE])
    /\ callers' = [callers EXCEPT ![p] =
            [pc |-> "returned", api |-> api, typ |-> t, seen |-> ref, obj |-> NoRef,
             after |-> Completed(api, t), ret |-> Len(heap) + 1]]

\* cache.Load(structT) found the entry: it is returned as it is.
loadHit(p, api, t, ref) ==
    /\ heap' = heap
    /\ callers' = [callers EXCEPT ![p] =
            [pc |-> "returned", api |-> api, typ |-> t, seen |-> ref, obj |-> NoRef,
             after |-> Completed(api, t), ret |-> ref]]

\* The type is not in the cache: a new entry is allocated, to be scanned.
loadMiss(p, api, t, item) ==
    /\ heap' = Append(heap, NewEntry(api, t, item))
    /\ callers' = [callers EXCEPT ![p] =
            [pc |-> "scan", api |-> api, typ |-> t, seen |-> NoRef,
             obj |-> Len(heap) + 1, after |-> Completed(api, t), ret |-> NoRef]]

\* structInfoCache: cache.Load(structT), and newsf := &structFields{} on a miss.
CacheLoad(p, t) ==
    /\ callers[p].pc = "idle"
    /\ IF t \in DOMAIN structFieldsCache
       THEN loadHit(p, "any", t, structFieldsCache[t])
       ELSE loadMiss(p, "any", t, NewStructFields)
    /\ UNCHANGED << structFieldsCache, fieldCache, renderVars >>

\* structInfoCache: findFieldsRecursively(structT, nil, newsf)
CacheScan(p) ==
    /\ callers[p].pc = "scan" /\ callers[p].api = "any"
    /\ heap' = [heap EXCEPT
            ![callers[p].obj].item = findFieldsRecursively(callers[p].typ, << >>, @),
            ![callers[p].obj].filled = TRUE]
    /\ callers' = [callers EXCEPT ![p].pc = "publish"]
    /\ UNCHANGED << structFieldsCache, fieldCache, renderVars >>

\* Publishing an entry: it is marked, and what it holds then is remembered.
publish(ref) ==
    [heap EXCEPT ![ref].published = TRUE, ![ref].atPublish = heap[ref].item]

\* sf, _ := cache.LoadOrStore(structT, newsf); return sf
loadOrStore(p, t, ref) ==
    IF t \in DOMAIN structFieldsCache
    THEN /\ callers' = [callers EXCEPT ![p].pc = "returned",
                                       ![p].ret = structFieldsCache[t]]
         /\ UNCHANGED << structFieldsCache, heap >>
    ELSE /\ structFieldsCache' = (t :> ref) @@ structFieldsCache
         /\ heap' = publish(ref)
         /\ callers' = [callers EXCEPT ![p].pc = "returned", ![p].ret = ref]

\* structInfoCache: the entry is published, unless another one was meanwhile.
CacheLoadOrStore(p) ==
    /\ callers[p].pc = "publish" /\ callers[p].api = "any"
    /\ loadOrStore(p, callers[p].typ, callers[p].obj)
    /\ UNCHANGED << fieldCache, renderVars >>

\* structInfo: sinfo, found := fieldCache[typ], and sinfo = &fieldCacheItem{}
\* on a miss. The map is read without any synchronisation.
FieldCacheLookup(p, t) ==
    /\ callers[p].pc = "idle"
    /\ IF t \in DOMAIN fieldCache
       THEN loadHit(p, "reflect", t, fieldCache[t])
       ELSE loadMiss(p, "reflect", t, NewFieldCacheItem)
    /\ UNCHANGED << structFieldsCache, fieldCache, renderVars >>

\* structInfo: the loop over the fields (the types introspected here embed
\* no struct, so that the scan reads no other entry of the cache).
FieldCacheScan(p) ==
    /\ callers[p].pc = "scan" /\ callers[p].api = "reflect"
    /\ heap' = [heap EXCEPT
            ![callers[p].obj].item =
                scanFields(ZeroOf(callers[p].typ),
                           [fault |-> "", cache |-> << >>, sinfo |-> @], 0).sinfo,
            ![callers[p].obj].filled = TRUE]
    /\ callers' = [callers EXCEPT ![p].pc = "publish"]
    /\ UNCHANGED << structFieldsCache, fieldCache, renderVars >>

\* structInfo: fieldCache[typ] = sinfo; return
FieldCacheStore(p) ==
    /\ callers[p].pc = "publish" /\ callers[p].api = "reflect"
    /\ fieldCache' = (callers[p].typ :> callers[p].obj) @@ fieldCache
    /\ heap' = publish(callers[p].obj)
    /\ callers' = [callers EXCEPT ![p].pc = "returned", ![p].ret = callers[p].obj]
    /\ UNCHANGED << structFieldsCache, renderVars >>

CacheInit ==
    /\ input = Invalid
    /\ orig = Invalid
    /\ visitor = [SortNodes |-> FALSE, SortProperties |-> FALSE]
    /\ styler = DefaultTreeStyler
    /\ structFieldsCache = << >>
    /\ fieldCache = << >>
    /\ heap = << >>
    /\ callers = [p \in Callers |-> IdleCaller]
    /\ history = << >>
    /\ pc = "start"
    /\ op = ""
    /\ rootsList = << >>
    /\ rootIdx = 1
    /\ stack = << >>
    /\ result = << >>
    /\ ret = NoValue
    /\ fault = ""

CacheNext ==
    \/ \E p \in Callers, t \in CacheShapes : CacheLoad(p, t)
    \/ \E p \in Callers : CacheScan(p)
    \/ \E p \in Callers : CacheLoadOrStore(p)
    \/ \E p \in Callers, t \in CacheShapes : FieldCacheLookup(p, t)
    \/ \E p \in Callers : FieldCacheScan(p)
    \/ \E p \in Callers : FieldCacheStore(p)

CacheSpec == CacheInit /\ [][CacheNext]_vars

-----------------------------------------------------------------------------
(* The TreeStyler methods, called on their own                             *)

MaxIndent == 4

\* The values given to ChildIndent and PropIndent: from a negative one to
\* the 4 of the styler test.
Indents == (0 - 1)..MaxIndent

\* The TreeStylers a caller can build: NewTreeStyler(style), then ChildIndent
\* and PropIndent assigned (both are exported fields).
TreeStylers ==
    { [Style |-> st, ChildIndent |-> c, PropIndent |-> p] :
        st \in { ASCIIStyle, LineStyle }, c \in Indents, p \in Indents }

\* The texts handed to the methods.
StylerTexts == { << >>, << "f", "o", "o" >>, << "+", "-", " ", "a" >> }

\* What every method call leaves alone.
stylerUnchanged ==
    << input, orig, visitor, styler, structFieldsCache, fieldCache, heap, callers, history,
       rootsList, rootIdx, stack, result, fault >>

\* A call of the method named name that returned text.
Returned(name, text) ==
    /\ pc = "start"
    /\ pc' = "done"
    /\ op' = name
    /\ ret' = [kind |-> "text", text |-> text]
    /\ UNCHANGED stylerUnchanged

CallRenderNodeLabel == Returned("renderNodeLabel", renderNodeLabel(styler, input.s))
CallRenderBranchedNode == Returned("renderBranchedNode", renderBranchedNode(styler, input.s))
CallRenderLastNode == Returned("renderLastNode", renderLastNode(styler, input.s))
CallIndentLine == Returned("indentLine", indentLine(styler, input.s))
CallIndentLineLastNode == Returned("indentLineLastNode", indentLineLastNode(styler, input.s))
CallRenderProperty == Returned("renderProperty", renderProperty(styler, input.s))
CallRenderPropertyNoChildrenFollowing ==
    Returned("renderPropertyNoChildrenFollowing",
             renderPropertyNoChildrenFollowing(styler, input.s))
CallRenderPropertyChildrenFollowing ==
    Returned("renderPropertyChildrenFollowing",
             renderPropertyChildrenFollowing(styler, input.s))

StylerInit ==
    /\ input \in { StringV(t) : t \in StylerTexts }
    /\ orig = input
    /\ visitor = [SortNodes |-> FALSE, SortProperties |-> FALSE]
    /\ styler \in TreeStylers
    /\ structFieldsCache = << >>
    /\ fieldCache = << >>
    /\ heap = << >>
    /\ callers = << >>
    /\ history = << >>
    /\ pc = "start"
    /\ op = ""
    /\ rootsList = << >>
    /\ rootIdx = 1
    /\ stack = << >>
    /\ result = << >>
    /\ ret = NoValue
    /\ fault = ""

StylerNext ==
    \/ CallRenderNodeLabel
    \/ CallRenderBranchedNode
    \/ CallRenderLastNode
    \/ CallIndentLine
    \/ CallIndentLineLastNode
    \/ CallRenderProperty
    \/ CallRenderPropertyNoChildrenFollowing
    \/ CallRenderPropertyChildrenFollowing

StylerSpec == StylerInit /\ [][StylerNext]_vars

-----------------------------------------------------------------------------
(* Introspection called again and again on the program's two caches        *)

MaxCalls == 3

\* The values introspected: the 42 and the struct types of the field cache
\* test (X, a struct that embeds X, TL, a double tag, an invalid tag also
\* when embedded, SKO with its embedded struct), and Node.
IntrospectInputs ==
    { IntV(42) }
    \cup { ZeroOf(t) : t \in { "X", "EmbX", "TL", "DupLabel", "BadTag", "EmbBad",
                               "EmbFirstRoots", "Node" } }

introspectUnchanged ==
    << input, orig, visitor, styler, heap, callers, pc, op, rootsList, rootIdx,
       stack, result, ret, fault >>

\* structInfo(reflect.ValueOf(x)) is called and returns or panics (the
\* caller recovers); the package variable fieldCache lives on.
CallStructInfo(x) ==
    /\ Len(history) < MaxCalls
    /\ LET called(r) ==
               /\ fieldCache' = r.cache
               /\ history' = Append(history,
                      [api |-> "reflect", node |-> x, fault |-> r.fault,
                       info |-> IF r.fault # "" THEN NoValue ELSE r.sinfo,
                       before |-> fieldCache, after |-> r.cache])
       IN called(structInfo(fieldCache, x))
    /\ UNCHANGED << structFieldsCache, introspectUnchanged >>

\* structFieldInfo(reflect.ValueOf(x)) is called and returns.
CallStructFieldInfo(x) ==
    /\ Len(history) < MaxCalls
    /\ LET called(r) ==
               /\ structFieldsCache' = r.cache
               /\ history' = Append(history,
                      [api |-> "any", node |-> x, fault |-> "", info |-> r.sf,
                       before |-> structFieldsCache, after |-> r.cache])
       IN called(structFieldInfo(structFieldsCache, x))
    /\ UNCHANGED << fieldCache, introspectUnchanged >>

IntrospectInit ==
    /\ input = Invalid
    /\ orig = Invalid
    /\ visitor = DefaultVisitor
    /\ styler = DefaultTreeStyler
    /\ structFieldsCache = << >>
    /\ fieldCache = << >>
    /\ heap = << >>
    /\ callers = << >>
    /\ history = << >>
    /\ pc = "start"
    /\ op = ""
    /\ rootsList = << >>
    /\ rootIdx = 1
    /\ stack = << >>
    /\ result = << >>
    /\ ret = NoValue
    /\ fault = ""

IntrospectNext ==
    \/ \E x \in IntrospectInputs : CallStructInfo(x)
    \/ \E x \in IntrospectInputs : CallStructFieldInfo(x)

IntrospectSpec == IntrospectInit /\ [][IntrospectNext]_vars

-----------------------------------------------------------------------------
(* asciitreeTagValues called alone                                         *)

MaxItems == 3

\* What stands between the commas of a tag: nothing, the four tag values,
\* two values that are none of them; bare, or behind a blank and before a
\* tab.
TagItems ==
    { p \o c \o r :
        c \in { << >>, TagRoots, TagLabel, TagProperties, TagChildren,
                << "f", "o", "o" >>, << "b", "a", "r" >> },
        << p, r >> \in { << << >>, << >> >>, << << " " >>, << "\t" >> >> } }

RECURSIVE TagTextsOf(_)
\* The tag texts of n items.
TagTextsOf(n) ==
    IF n = 1 THEN TagItems
    ELSE { t \o << "," >> \o i : t \in TagTextsOf(n - 1), i \in TagItems }

TagTexts == UNION { TagTextsOf(n) : n \in 1..MaxItems }

\* vals, ok := asciitreeTagValues(input)
CallAsciitreeTagValues ==
    /\ pc = "start"
    /\ op' = "asciitreeTagValues"
    /\ pc' = "done"
    /\ LET returned(r) == ret' = [kind |-> "tags", tags |-> r.tags, ok |-> r.ok]
       IN returned(asciitreeTagValues(input.s))
    /\ UNCHANGED << input, orig, visitor, styler, structFieldsCache, fieldCache,
                    heap, callers, history, rootsList, rootIdx, stack, result, fault >>

TagInit ==
    /\ input \in { StringV(t) : t \in TagTexts }
    /\ orig = input
    /\ visitor = DefaultVisitor
    /\ styler = DefaultTreeStyler
    /\ structFieldsCache = << >>
    /\ fieldCache = << >>
    /\ heap = << >>
    /\ callers = << >>
    /\ history = << >>
    /\ pc = "start"
    /\ op = ""
    /\ rootsList = << >>
    /\ rootIdx = 1
    /\ stack = << >>
    /\ result = << >>
    /\ ret = NoValue
    /\ fault = ""

TagNext == CallAsciitreeTagValues

TagSpec == TagInit /\ [][TagNext]_vars

-----------------------------------------------------------------------------
(* What the claims are stated with                                         *)

HasPrefix(t, p) == Len(t) >= Len(p) /\ SubSeq(t, 1, Len(p)) = p
HasSuffix(t, p) == Len(t) >= Len(p) /\ SubSeq(t, Len(t) - Len(p) + 1, Len(t)) = p

RECURSIVE SplitAcc(_, _, _)
SplitAcc(text, cur, acc) ==
    IF text = << >> THEN [lines |-> acc, rest |-> cur]
    ELSE IF Head(text) = "\n" THEN SplitAcc(Tail(text), << >>, Append(acc, cur))
    ELSE SplitAcc(Tail(text), Append(cur, Head(text)), acc)

\* The newline-terminated lines of a text, and what follows the last newline.
LinesOf(text) == SplitAcc(text, << >>, << >>).lines
Unterminated(text) == SplitAcc(text, << >>, << >>).rest

RECURSIVE Resolved(_)
\* The tree below a node as the visitor resolves it: at every node the
\* label, properties and children that Get returns, in Get's order.
Resolved(node) ==
    LET d == Get(visitor, << >>, node) IN
    [node |-> node, label |-> d.label, props |-> d.properties,
     children |-> [i \in 1..Len(d.children) |-> Resolved(d.children[i])]]

RECURSIVE Size(_)
RECURSIVE SizeSum(_, _)
\* The number of lines of a resolved tree: one per node and per property.
Size(t) == 1 + Len(t.props) + SizeSum(t.children, Len(t.children))
\* The number of lines of the first n trees of ts.
SizeSum(ts, n) == IF n = 0 THEN 0 ELSE SizeSum(ts, n - 1) + Size(ts[n])

\* The lines of the i-th child's subtree within the lines of t's subtree.
ChildBlock(t, block, i) ==
    LET start == 1 + Len(t.props) + SizeSum(t.children, i - 1) IN
    SubSeq(block, start + 1, start + Size(t.children[i]))

RECURSIVE NodeBlocks(_, _)
\* Every node of t's subtree with the output lines of its own subtree.
NodeBlocks(t, block) ==
    { [t |-> t, block |-> block] }
    \cup UNION { NodeBlocks(t.children[i], ChildBlock(t, block, i)) :
                 i \in 1..Len(t.children) }

RenderDone == pc = "done" /\ op = "Render"

\* The roots Render resolved, each as the visitor resolves its tree.
ResolvedRoots == [i \in 1..Len(rootsList) |-> Resolved(rootsList[i])]

OutLines == LinesOf(ret.text)

\* The output lines of the i-th root.
RootBlock(i) ==
    SubSeq(OutLines, SizeSum(ResolvedRoots, i - 1) + 1, SizeSum(ResolvedRoots, i))

\* Every rendered node with the output lines of its subtree.
RenderedNodes ==
    UNION { NodeBlocks(ResolvedRoots[i], RootBlock(i)) : i \in 1..Len(rootsList) }

RECURSIVE ChildPrefixesOK(_, _, _)
\* Below t, whose lines all start with prefix: the first line of every
\* child's subtree continues with the fork prefix (last child: last-node
\* prefix), every further line with the vertical-continuation indent (last
\* child: blank indentation); and so on below every child.
ChildPrefixesOK(t, block, prefix) ==
    \A i \in 1..Len(t.children) :
        LET b == ChildBlock(t, block, i)
            last == i = Len(t.children)
            first == IF last THEN renderLastNode(styler, << >>)
                     ELSE renderBranchedNode(styler, << >>)
            cont == IF last THEN indentLineLastNode(styler, << >>)
                    ELSE indentLine(styler, << >>)
        IN /\ Len(b) = Size(t.children[i])
           /\ HasPrefix(b[1], prefix \o first)
           /\ \A j \in 2..Len(b) : HasPrefix(b[j], prefix \o cont)
           /\ ChildPrefixesOK(t.children[i], b, prefix \o cont)

\* C1: in the text Render returns, for every node with children c1..cn in
\* Get's order, the first line of the subtree of ci carries the fork prefix
\* when i < n and the last-node prefix when i = n, and every further line of
\* that subtree carries the vertical-continuation indent when i < n and
\* blank indentation when i = n.
C1_ChildLinePrefixes ==
    RenderDone =>
        \A i \in 1..Len(rootsList) :
            ChildPrefixesOK(ResolvedRoots[i], RootBlock(i), << >>)

\* A rendered node has a non-last child and a last child whose subtrees
\* both have further lines.
C1_Witness ==
    /\ RenderDone
    /\ \E nb \in RenderedNodes :
          /\ Len(nb.t.children) >= 2
          /\ \A i \in 1..Len(nb.t.children) : Size(nb.t.children[i]) >= 2

\* C2: every property line of a rendered node is the leaf-property variant
\* when the node has no children and the children-following variant when it
\* has some, and the two variants of one property text differ.
C2_PropertyVariant ==
    RenderDone =>
        \A nb \in RenderedNodes :
            \A k \in 1..Len(nb.t.props) :
                LET line == nb.block[1 + k]
                    leaf == renderPropertyNoChildrenFollowing(styler, nb.t.props[k])
                    following == renderPropertyChildrenFollowing(styler, nb.t.props[k])
                IN /\ leaf # following
                   /\ IF nb.t.children = << >>
                      THEN HasSuffix(line, leaf) /\ ~HasSuffix(line, following)
                      ELSE HasSuffix(line, following) /\ ~HasSuffix(line, leaf)

\* The same property text was rendered on a leaf and on a node with children.
C2_Witness ==
    /\ RenderDone
    /\ \E x \in RenderedNodes, y \in RenderedNodes :
          /\ x.t.children = << >> /\ y.t.children # << >>
          /\ x.t.props # << >> /\ y.t.props # << >>
          /\ x.t.props[1] = y.t.props[1]

RECURSIVE Preorder(_)
RECURSIVE PreorderAll(_, _)
\* The texts of a resolved tree in output order: the label, the properties,
\* then the subtrees of the children.
Preorder(t) == << t.label >> \o t.props \o PreorderAll(t.children, Len(t.children))
PreorderAll(ts, n) == IF n = 0 THEN << >> ELSE PreorderAll(ts, n - 1) \o Preorder(ts[n])

RECURSIVE JoinLines(_)
\* Every line followed by one newline.
JoinLines(ls) == IF ls = << >> THEN << >> ELSE Head(ls) \o << "\n" >> \o JoinLines(Tail(ls))

\* C3: the text Render returns holds, for each resolved root in order, the
\* label line, one line per property, then the children's subtrees; every
\* line is followed by exactly one newline, the text ends with one, and no
\* line stands between the lines of consecutive roots (the text has exactly
\* one line per label and property).
C3_LineOrder ==
    RenderDone =>
        LET texts == PreorderAll(ResolvedRoots, Len(rootsList)) IN
        /\ Unterminated(ret.text) = << >>
        /\ ret.text = JoinLines(OutLines)
        /\ Len(OutLines) = Len(texts)
        /\ \A i \in 1..Len(texts) : HasSuffix(OutLines[i], texts[i])

\* Two roots were rendered, the first with a property and a child.
C3_Witness ==
    /\ RenderDone
    /\ Len(rootsList) >= 2
    /\ ResolvedRoots[1].props # << >>
    /\ ResolvedRoots[1].children # << >>

\* Whether a value is a node the visitor supports: a struct or a map, or a
\* reference to one.
IsNode(x) == Indirect(x).kind \in { "struct", "map" }

\* A visitor that sorts nothing: what it returns is the caller's own order.
PlainVisitor == [SortNodes |-> FALSE, SortProperties |-> FALSE]

\* The label of a node, and its children as the caller stored them.
LabelOf(x) == Label(<< >>, x).label
StoredChildren(x) == nodeDetails(PlainVisitor, << >>, x).children
StoredProperties(x) == nodeDetails(PlainVisitor, << >>, x).properties

\* The permutations of 1..n.
Perms(n) == { f \in [1..n -> 1..n] : \A i, j \in 1..n : f[i] = f[j] => i = j }

\* out holds the elements of in, each as often as in does.
IsPermutationOf(out, in) ==
    /\ Len(out) = Len(in)
    /\ \E f \in Perms(Len(in)) : \A i \in 1..Len(in) : out[i] = in[f[i]]

\* out is in ascending order of the labels of its nodes.
IsAscending(out) ==
    \A i, j \in 1..Len(out) : i < j => Compare(LabelOf(out[i]), LabelOf(out[j])) <= 0

\* out is in sorted by label, nodes of equal label in the order in has them.
IsStableSortOf(out, in) ==
    /\ Len(out) = Len(in)
    /\ \E f \in Perms(Len(in)) :
          /\ \A i \in 1..Len(in) : out[i] = in[f[i]]
          /\ \A i, j \in 1..Len(in) :
                i < j => \/ Compare(LabelOf(out[i]), LabelOf(out[j])) < 0
                         \/ Compare(LabelOf(out[i]), LabelOf(out[j])) = 0 /\ f[i] < f[j]

\* Whether Render was given a record that has a roots-tagged member.
HasRootsMember(x) ==
    /\ Indirect(x).kind = "struct"
    /\ findFieldsRecursively(Indirect(x).typ, << >>, NewStructFields).RootsPath # NilPath

\* C4: Render of a record with a roots-tagged member renders every element
\* of that member, as the visitor's Roots resolves them, as a top-level tree
\* and does not render the record itself as a node.
C4_RootsMemberRendered ==
    (RenderDone /\ HasRootsMember(orig)) =>
        /\ rootsList = Roots(visitor, << >>, orig).nodes
        /\ \A i \in 1..Len(rootsList) : rootsList[i] # orig
        /\ Len(OutLines) = SizeSum(ResolvedRoots, Len(rootsList))

\* C5 as stated: Roots on a mapping returns the mapping itself when it has
\* no roots key, the elements of the roots value in their order when that
\* value is a sequence, and the roots value when it is a single mapping.
C5_MapRootsInOrder ==
    (pc = "done" /\ op = "Roots" /\ Indirect(orig).kind = "map") =>
        LET maproots == MapIndex(Indirect(orig), "roots") IN
        CASE maproots.kind = "invalid" -> ret.nodes = << orig >>
          [] maproots.kind = "slice" -> ret.nodes = anySlice(maproots)
          [] maproots.kind = "map" -> ret.nodes = << maproots >>
          [] OTHER -> TRUE

\* C5 amended: as stated, but the elements of a roots sequence come in their
\* order only when SortNodes is off; when it is on they come in ascending
\* order of their labels.
C5_MapRoots ==
    (pc = "done" /\ op = "Roots" /\ Indirect(orig).kind = "map") =>
        LET maproots == MapIndex(Indirect(orig), "roots") IN
        CASE maproots.kind = "invalid" -> ret.nodes = << orig >>
          [] maproots.kind = "slice" ->
                IF visitor.SortNodes
                THEN IsPermutationOf(ret.nodes, anySlice(maproots)) /\ IsAscending(ret.nodes)
                ELSE ret.nodes = anySlice(maproots)
          [] maproots.kind = "map" -> ret.nodes = << maproots >>
          [] OTHER -> TRUE

\* Roots returned the elements of a map's roots sequence in another order
\* than the sequence has them.
C5_Witness ==
    /\ pc = "done" /\ op = "Roots" /\ Indirect(orig).kind = "map"
    /\ MapIndex(Indirect(orig), "roots").kind = "slice"
    /\ ret.nodes # anySlice(MapIndex(Indirect(orig), "roots"))

\* C6: Roots on a sequence of nodes returns every element as a root, in the
\* original order when SortNodes is off and in ascending order of the labels
\* when it is on, with the same length and the same elements either way.
C6_SliceRoots ==
    (pc = "done" /\ op = "Roots" /\ Indirect(orig).kind = "slice") =>
        /\ IsPermutationOf(ret.nodes, anySlice(Indirect(orig)))
        /\ IF visitor.SortNodes THEN IsAscending(ret.nodes)
           ELSE ret.nodes = anySlice(Indirect(orig))

\* Roots sorted a sequence of three nodes that was not in label order.
C6_Witness ==
    /\ pc = "done" /\ op = "Roots" /\ orig.kind = "slice"
    /\ visitor.SortNodes
    /\ Len(ret.nodes) = 3
    /\ ret.nodes # anySlice(orig)

\* C7: Render and Roots, given a value that is no record, mapping or
\* sequence (nor a reference to one), fault with their unsupported-roots
\* diagnosis, and Render produces no text.
C7_UnsupportedRoots ==
    (pc # "start" /\ op \in { "Render", "Roots" }
        /\ Indirect(orig).kind \notin { "struct", "map", "slice" }) =>
        /\ pc = "panic"
        /\ fault = (IF op = "Render" THEN FaultRender ELSE FaultRoots)
        /\ ret = NoValue
        /\ result = << >>

\* Render was called with the bare integer 42 and faulted.
C7_Witness ==
    /\ op = "Render" /\ orig = IntV(42) /\ pc = "panic"

RECURSIVE AllNodes(_)
\* Whether x and everything below it, as the caller stored it, is a node.
AllNodes(x) ==
    /\ IsNode(x)
    /\ \A i \in 1..Len(StoredChildren(x)) : AllNodes(StoredChildren(x)[i])

\* What Render takes as top-level trees, in the caller's order.
StoredRoots(x) == renderRoots(PlainVisitor, << >>, x)

\* C8: when a node reached while rendering (a root or a child at any depth)
\* is neither a record nor a mapping, Render faults with the
\* unsupported-node fault and returns nothing, whatever lines were produced
\* before the node was reached.
C8_NoPartialOutput ==
    (op = "Render" /\ StoredRoots(orig).fault = "") =>
        /\ pc = "done" =>
              \A i \in 1..Len(StoredRoots(orig).nodes) : AllNodes(StoredRoots(orig).nodes[i])
        /\ pc = "panic" => ret = NoValue /\ fault = FaultNode

\* Render faulted on a node after it had produced lines.
C8_Witness ==
    /\ op = "Render" /\ pc = "panic" /\ fault = FaultNode
    /\ Len(LinesOf(result)) >= 2

\* C9: with SortNodes on, the children Get returns and the nodes sortedNodes
\* returns (as Roots does for a sequence) are the source nodes, each once,
\* in ascending order of their labels, nodes of equal label in their
\* original relative order.
C9_StableSort ==
    (pc = "done" /\ visitor.SortNodes) =>
        /\ op = "Get" => IsStableSortOf(ret.children, StoredChildren(orig))
        /\ (op = "Roots" /\ orig.kind = "slice") =>
              IsStableSortOf(ret.nodes, anySlice(orig))

\* sortedNodes moved a node to the front of two nodes of equal label that
\* differ, and Get returned two children of equal label that differ.
C9_Witness ==
    \/ /\ pc = "done" /\ visitor.SortNodes /\ op = "Roots" /\ orig.kind = "slice"
       /\ Len(ret.nodes) = 3
       /\ ret.nodes[1] = orig.elems[3]
       /\ LabelOf(ret.nodes[2]) = LabelOf(ret.nodes[3])
       /\ ret.nodes[2] # ret.nodes[3]
    \/ /\ pc = "done" /\ visitor.SortNodes /\ op = "Get"
       /\ Len(ret.children) = 2
       /\ LabelOf(ret.children[1]) = LabelOf(ret.children[2])
       /\ ret.children[1] # ret.children[2]

\* C10: after Get returned, with SortProperties and/or SortNodes on, the
\* caller's node holds its properties and its children in the order they had
\* before the call (Get of either API sorts copies, not the caller's data).
C10_CallerDataUnchanged ==
    (/\ pc = "done" /\ op \in { "Get", "GetV1" }
     /\ (visitor.SortProperties \/ visitor.SortNodes)) =>
        /\ StoredProperties(input) = StoredProperties(orig)
        /\ StoredChildren(input) = StoredChildren(orig)

\* C11: an introspection of a struct type that starts after one of the type
\* has returned finds the entry in the cache, scans nothing, and returns the
\* very entry the cache holds (the same object, not a copy of it).
C11_CachedEntryIdentity ==
    \A p \in Callers :
        (callers[p].pc = "returned" /\ callers[p].after) =>
            /\ callers[p].seen # NoRef
            /\ callers[p].obj = NoRef
            /\ callers[p].ret = callers[p].seen
            /\ \A q \in Callers :
                  (/\ callers[q].pc = "returned" /\ callers[q].after
                   /\ callers[q].api = callers[p].api /\ callers[q].typ = callers[p].typ
                   /\ callers[q].seen = callers[p].seen) =>
                        callers[q].ret = callers[p].ret

\* Two introspections of a type of either API returned after a first one
\* had, and the heap holds the one entry that was scanned for it.
C11_Witness ==
    \E api \in { "any", "reflect" } :
        /\ \A p \in Callers : callers[p].pc = "returned" /\ callers[p].api = api
                               /\ callers[p].typ = "Node"
        /\ \E p, q \in Callers : p # q /\ callers[p].after /\ callers[q].after
        /\ Len(heap) = 1

\* The cache of an API.
CacheOf(api) == IF api = "any" THEN structFieldsCache ELSE fieldCache

\* What is required of the entries published for the introspections of api.
PublishedOnce(api) ==
    /\ \A i, j \in 1..Len(heap) :
          (/\ heap[i].api = api /\ heap[j].api = api
           /\ heap[i].published /\ heap[j].published
           /\ heap[i].typ = heap[j].typ) => i = j
    /\ \A i \in 1..Len(heap) :
          (heap[i].api = api /\ heap[i].published) =>
              /\ heap[i].filled
              /\ heap[i].item = heap[i].atPublish
              /\ heap[i].typ \in DOMAIN CacheOf(api)
              /\ CacheOf(api)[heap[i].typ] = i
    /\ \A p \in Callers :
          (callers[p].pc = "returned" /\ callers[p].api = api) =>
              /\ callers[p].typ \in DOMAIN CacheOf(api)
              /\ callers[p].ret = CacheOf(api)[callers[p].typ]

\* C12: when goroutines introspect a struct type concurrently, one entry at
\* most is ever published for the type, every caller returns the published
\* entry, and an entry is filled in before it is published and is neither
\* modified, replaced nor removed afterwards (for the caches of both APIs).
C12_OnePublishedEntry == PublishedOnce("any") /\ PublishedOnce("reflect")

\* Whether a value is a struct (or a reference to one) of one of the types.
IsShape(x, names) == Indirect(x).kind = "struct" /\ Indirect(x).typ \in names

Range(f) == { f[i] : i \in DOMAIN f }

\* The location an entry records for role i: a path of member indices from
\* 1 (any API), a member index from 0 (reflect.Value API).
RolePath(sf, i) == << sf.LabelPath, sf.PropertiesPath, sf.ChildrenPath, sf.RootsPath >>[i]
RoleIndex(item, i) ==
    << item.labelIndex, item.propertiesIndex, item.childrenIndex, item.rootsIndex >>[i]

\* An entry that records a path for role i alone, or an index for it alone.
OnlyPath(sf, i, path) ==
    \A j \in 1..4 : RolePath(sf, j) = (IF j = i THEN path ELSE NilPath)
OnlyIndex(item, i, idx) ==
    \A j \in 1..4 : RoleIndex(item, j) = (IF j = i THEN idx ELSE -1)

\* C13: introspecting a struct type that tags two members of the same level
\* with the same role faults, whichever of the four roles it is: no call on
\* a value of such a type returns, and no entry is cached for the type.
C13_DoubleTagFaults ==
    IsShape(orig, Range(DupName)) =>
        /\ pc # "done"
        /\ Indirect(orig).typ \notin DOMAIN structFieldsCache
        /\ Indirect(orig).typ \notin DOMAIN fieldCache

\* C14: when a struct and a struct it embeds both tag a member with the same
\* role, the introspection does not fault and the entry of the outer type
\* records the outer struct's own member, whether the embedded struct comes
\* before or after that member.
C14_CloserToRootWins ==
    \A i \in 1..4 :
        /\ IsShape(orig, { EmbFirstName[i], EmbLastName[i] }) => pc # "panic"
        /\ EmbFirstName[i] \in DOMAIN structFieldsCache =>
              RolePath(structFieldsCache[EmbFirstName[i]], i) = << 2 >>
        /\ EmbLastName[i] \in DOMAIN structFieldsCache =>
              RolePath(structFieldsCache[EmbLastName[i]], i) = << 1 >>
        /\ EmbFirstName[i] \in DOMAIN fieldCache =>
              RoleIndex(fieldCache[EmbFirstName[i]], i) = 1
        /\ EmbLastName[i] \in DOMAIN fieldCache =>
              RoleIndex(fieldCache[EmbLastName[i]], i) = 0

\* C15: a struct type with a member whose asciitree tag is none of label,
\* properties, children, roots (the member may be in an embedded struct)
\* faults when Render, Roots, Label or Get first use it: no call on a value
\* of such a type returns, and no entry is cached for the type.
C15_InvalidTagFaults ==
    IsShape(orig, { "BadTag", "EmbBad" }) =>
        /\ pc # "done"
        /\ Indirect(orig).typ \notin DOMAIN structFieldsCache
        /\ Indirect(orig).typ \notin DOMAIN fieldCache

\* C16: a named member that is a struct is not scanned (its tags give the
\* containing type no role location and no conflict with the type's own
\* tagged member), an embedded reference to a struct is not either, and an
\* embedded struct is.
C16_NamedNotScanned ==
    \A i \in 1..4 :
        /\ IsShape(orig, { NamedName[i], NamedOwnName[i], EmbRefName[i] }) =>
              pc # "panic"
        /\ \A t \in { NamedName[i], EmbRefName[i] } :
              /\ t \in DOMAIN structFieldsCache => structFieldsCache[t] = NewStructFields
              /\ t \in DOMAIN fieldCache => fieldCache[t] = NewFieldCacheItem
        /\ NamedOwnName[i] \in DOMAIN structFieldsCache =>
              OnlyPath(structFieldsCache[NamedOwnName[i]], i, << 2 >>)
        /\ NamedOwnName[i] \in DOMAIN fieldCache =>
              OnlyIndex(fieldCache[NamedOwnName[i]], i, 1)
        /\ EmbOnlyName[i] \in DOMAIN structFieldsCache =>
              OnlyPath(structFieldsCache[EmbOnlyName[i]], i, << 1, 1 >>)
        /\ EmbOnlyName[i] \in DOMAIN fieldCache =>
              RoleIndex(fieldCache[EmbOnlyName[i]], i) >= 0

\* Get returned for a struct that has a named member whose type tags the
\* role its own second member is tagged with.
C16_Witness ==
    /\ pc = "done" /\ op = "Get"
    /\ IsShape(orig, Range(NamedOwnName))
    /\ Indirect(orig).typ \in DOMAIN structFieldsCache

RECURSIVE TaggedRoles(_)
\* The roles a struct type tags: those of its own members and of the
\* structs it embeds, read off the declaration.
TaggedRoles(t) ==
    UNION { IF StructTypes[t][k].hasTag /\ StructTypes[t][k].tag \in Range(Roles)
            THEN { StructTypes[t][k].tag }
            ELSE IF StructTypes[t][k].anonymous /\ StructTypes[t][k].kind = "struct"
            THEN TaggedRoles(StructTypes[t][k].typ)
            ELSE { } : k \in 1..Len(StructTypes[t]) }

\* x is a struct without a tagged role (or a reference to one), or an empty map.
Nothing(x) ==
    \/ Indirect(x).kind = "struct" /\ TaggedRoles(Indirect(x).typ) = { }
    \/ Indirect(x).kind = "map" /\ DOMAIN Indirect(x).m = { }

AnyAPI == { "Render", "Roots", "Label", "Get" }

C18_UntaggedRenderFaults ==
    (op = "Render" /\ IsShape(orig, { "X" })) => pc # "done"

\* g repeated n times, given character by character; empty for n <= 0.
Times(g, n) ==
    IF n <= 0 THEN << >> ELSE [i \in 1..(n * Len(g)) |-> g[((i - 1) % Len(g)) + 1]]

Spaces(n) == Times(<< " " >>, n)

\* The text each TreeStyler method is to return for the text t.
Fragment(s, name, t) ==
    CASE name = "renderBranchedNode" ->
            s.Style.Fork \o Times(s.Style.Nodeconn, s.ChildIndent - 2) \o << " " >> \o t
      [] name = "renderLastNode" ->
            s.Style.Lastnode \o Times(s.Style.Nodeconn, s.ChildIndent - 2) \o << " " >> \o t
      [] name = "indentLine" ->
            s.Style.Nofork \o Spaces(s.ChildIndent - 2) \o << " " >> \o t
      [] name = "indentLineLastNode" -> Spaces(s.ChildIndent) \o t
      [] name = "renderPropertyNoChildrenFollowing" ->
            Spaces(s.PropIndent) \o s.Style.Property \o << " " >> \o t
      [] name = "renderPropertyChildrenFollowing" ->
            s.Style.Nofork \o Spaces(s.PropIndent - 1) \o s.Style.Property
                \o << " " >> \o t
      [] OTHER -> t

\* C19: each TreeStyler method returns its glyphs, the repetitions and the
\* text in the stated composition; a repetition count of zero or less
\* contributes nothing, and no call panics.
C19_StylerFragments ==
    /\ pc # "panic"
    /\ pc = "done" => ret.text = Fragment(styler, op, input.s)

\* renderBranchedNode returned with a negative repetition count
\* (ChildIndent - 2 < 0): the fork, one space and the text.
C19_Witness ==
    /\ pc = "done" /\ op = "renderBranchedNode"
    /\ styler.ChildIndent - 2 < 0
    /\ input.s # << >>
    /\ ret.text = styler.Style.Fork \o << " " >> \o input.s

RECURSIVE Deref(_)
\* The data x with every reference to a value replaced by the value (a nil
\* reference stays).
Deref(x) ==
    CASE x.kind = "ptr" -> IF x.elem.kind = "invalid" THEN x ELSE Deref(x.elem)
      [] x.kind = "slice" /\ x.of = "any" ->
            SliceV([i \in 1..Len(x.elems) |-> Deref(x.elems[i])])
      [] x.kind = "struct" ->
            StructV(x.typ, [i \in 1..Len(x.fields) |-> Deref(x.fields[i])])
      [] x.kind = "map" -> MapV([k \in DOMAIN x.m |-> Deref(x.m[k])])
      [] OTHER -> x

\* The lines of a child's subtree as its parent passes them on.
StyledLines(s, lines, last) ==
    [j \in 1..Len(lines) |->
        IF j = 1
        THEN IF last THEN renderLastNode(s, lines[j]) ELSE renderBranchedNode(s, lines[j])
        ELSE IF last THEN indentLineLastNode(s, lines[j]) ELSE indentLine(s, lines[j])]

\* The label and property lines of a node Get returned d for.
OwnLines(s, d) ==
    << renderNodeLabel(s, d.label) >>
    \o [k \in 1..Len(d.properties) |->
          IF Len(d.children) = 0
          THEN renderPropertyNoChildrenFollowing(s, renderProperty(s, d.properties[k]))
          ELSE renderPropertyChildrenFollowing(s, renderProperty(s, d.properties[k]))]

RECURSIVE SubtreeLines(_, _, _)
RECURSIVE ChildrenLines(_, _, _, _, _)
\* renderSubtree as a function: all lines of node's subtree, or the first
\* panic of the traversal.
SubtreeLines(v, s, node) ==
    LET sub(d) ==
            IF d.fault # "" THEN [fault |-> d.fault, lines |-> << >>]
            ELSE ChildrenLines(v, s, d.children, 1, OwnLines(s, d))
    IN sub(Get(v, << >>, node))

\* acc followed by the lines of the children from the i-th on.
ChildrenLines(v, s, cs, i, acc) ==
    IF i > Len(cs) THEN [fault |-> "", lines |-> acc]
    ELSE LET next(c) ==
                 IF c.fault # "" THEN c
                 ELSE ChildrenLines(v, s, cs, i + 1,
                                    acc \o StyledLines(s, c.lines, i = Len(cs)))
         IN next(SubtreeLines(v, s, cs[i]))

RECURSIVE RootsText(_, _, _, _, _)
\* acc followed by the lines of the roots from the i-th on, each line with
\* its newline.
RootsText(v, s, rs, i, acc) ==
    IF i > Len(rs) THEN [fault |-> "", text |-> acc]
    ELSE LET next(c) ==
                 IF c.fault # "" THEN [fault |-> c.fault, text |-> << >>]
                 ELSE RootsText(v, s, rs, i + 1, acc \o JoinLines(c.lines))
         IN next(SubtreeLines(v, s, rs[i]))

\* Render as a function of its arguments: the text, or the panic.
RenderOf(v, s, roots) ==
    LET rendered(r) ==
            IF r.fault # "" THEN [fault |-> r.fault, text |-> << >>]
            ELSE RootsText(v, s, r.nodes, 1, << >>)
    IN rendered(renderRoots(v, << >>, roots))

\* What the call of Render ended with is the outcome o.
EndedAs(o) ==
    IF pc = "done" THEN o.fault = "" /\ ret.text = o.text ELSE o.fault = fault

\* C20: Render of data that holds references (a reference to the root node,
\* a slice of references to nodes, children that are references) ends as
\* Render of the same data with the node values in their place does: with
\* the same text, or with the same panic.
C20_ReferencesTransparent ==
    (op = "Render" /\ pc \in { "done", "panic" }) =>
        EndedAs(RenderOf(visitor, styler, Deref(orig)))

\* Render returned the text of a slice of references to nodes, one of them
\* with a child that is a reference.
C20_Witness ==
    /\ RenderDone
    /\ orig.kind = "slice" /\ Len(orig.elems) >= 1
    /\ \A i \in 1..Len(orig.elems) : orig.elems[i].kind = "ptr"
    /\ \E i \in 1..Len(orig.elems) :
          /\ orig.elems[i].elem.kind = "struct"
          /\ Len(orig.elems[i].elem.fields) = 3
          /\ Len(orig.elems[i].elem.fields[3].elems) >= 1
          /\ orig.elems[i].elem.fields[3].elems[1].kind = "ptr"
    /\ Deref(orig) # orig
    /\ ret.text = RenderOf(visitor, styler, Deref(orig)).text

\* RenderPlain(roots) and RenderFancy(roots), as functions.
RenderPlain(roots) == RenderOf(DefaultVisitor, DefaultTreeStyler, roots)
RenderFancy_ASCII(roots) == RenderOf(DefaultVisitor, DefaultTreeStyler, roots)
RenderFancy(roots) == RenderOf(DefaultVisitor, LineTreeStyler, roots)

\* The glyph of LineStyle for a line-art character of ASCIIStyle; a blank
\* for a blank.
FancyGlyph(c) ==
    CASE << c >> = ASCIIStyle.Fork -> LineStyle.Fork[1]
      [] << c >> = ASCIIStyle.Nodeconn -> LineStyle.Nodeconn[1]
      [] << c >> = ASCIIStyle.Nofork -> LineStyle.Nofork[1]
      [] << c >> = ASCIIStyle.Lastnode -> LineStyle.Lastnode[1]
      [] << c >> = ASCIIStyle.Property -> LineStyle.Property[1]
      [] c = " " -> " "
      [] OTHER -> "no glyph"

\* The lines plain and fancy carry the texts (labels and properties) at the
\* same columns, and before the text of each line the plain one has line
\* art and blanks where the fancy one has the corresponding glyphs.
SameStructure(plain, fancy, texts) ==
    /\ Len(plain) = Len(texts)
    /\ Len(fancy) = Len(texts)
    /\ \A i \in 1..Len(texts) :
          /\ Len(plain[i]) = Len(fancy[i])
          /\ HasSuffix(plain[i], texts[i])
          /\ HasSuffix(fancy[i], texts[i])
          /\ \A k \in 1..(Len(plain[i]) - Len(texts[i])) :
                fancy[i][k] = FancyGlyph(plain[i][k])

\* C21: for every input, RenderFancy and RenderPlain end alike (both return
\* or both panic the same way), and what they return has the same lines
\* with the same texts at the same columns, the Unicode glyphs standing
\* where the ASCII ones stand.
C21_FancyLikePlain ==
    (op = "Render" /\ visitor = DefaultVisitor) =>
        /\ (pc = "panic" /\ styler = DefaultTreeStyler) => RenderFancy(orig).fault = fault
        /\ (pc = "panic" /\ styler = LineTreeStyler) => RenderPlain(orig).fault = fault
        /\ (pc = "done" /\ styler = DefaultTreeStyler) =>
              /\ RenderFancy(orig).fault = ""
              /\ SameStructure(OutLines, LinesOf(RenderFancy(orig).text),
                               PreorderAll(ResolvedRoots, Len(rootsList)))
        /\ (pc = "done" /\ styler = LineTreeStyler) =>
              /\ RenderPlain(orig).fault = ""
              /\ SameStructure(LinesOf(RenderPlain(orig).text), OutLines,
                               PreorderAll(ResolvedRoots, Len(rootsList)))

\* RenderFancy returned the text of a node with a property and two children.
C21_Witness ==
    /\ RenderDone /\ styler = LineTreeStyler
    /\ Len(rootsList) = 1
    /\ Len(ResolvedRoots[1].props) >= 1
    /\ Len(ResolvedRoots[1].children) = 2
    /\ ret.text # RenderPlain(orig).text

\* The Node a value of type EmbNode or Emb2Node embeds.
EmbeddedNode(x) ==
    IF Indirect(x).typ = "EmbNode" THEN Indirect(x).fields[1]
    ELSE Indirect(x).fields[2].fields[1]

\* The paths to the members of the embedded Node, from the outer struct.
PathsInto(prefix) ==
    [LabelPath |-> prefix \o << 1 >>, PropertiesPath |-> prefix \o << 2 >>,
     ChildrenPath |-> prefix \o << 3 >>, RootsPath |-> NilPath]

\* What the call ended with is what d tells: the same panic, or the same
\* label (and, for Get, properties and children).
EndedWith(d) ==
    IF d.fault # "" THEN pc = "panic" /\ fault = d.fault
    ELSE /\ pc = "done"
         /\ ret.label = d.label
         /\ op # "Label" => ret.properties = d.properties /\ ret.children = d.children

\* C22: for a struct whose roles are tagged only in a struct it embeds
\* (directly, or in a struct embedded in the embedded one), the entry of the
\* outer type records the paths to the embedded tagged members, and Label
\* and Get on the outer struct end as they do on the embedded struct, in
\* both generations of the visitor.
C22_EmbeddedFlattened ==
    /\ "EmbNode" \in DOMAIN structFieldsCache =>
          structFieldsCache["EmbNode"] = PathsInto(<< 1 >>)
    /\ "Emb2Node" \in DOMAIN structFieldsCache =>
          structFieldsCache["Emb2Node"] = PathsInto(<< 2, 1 >>)
    /\ (IsShape(orig, { "EmbNode", "Emb2Node" }) /\ pc \in { "done", "panic" }) =>
          /\ op = "Get" => EndedWith(Get(visitor, << >>, EmbeddedNode(orig)))
          /\ op = "Label" => EndedWith(Label(<< >>, EmbeddedNode(orig)))
          /\ op = "GetV1" => EndedWith(GetV1(visitor, << >>, EmbeddedNode(orig)))

\* The entries of the cache before are in the cache after, as they were.
KeepsEntries(before, after) ==
    \A t \in DOMAIN before : t \in DOMAIN after /\ after[t] = before[t]

\* C23: a structInfo call that panics (double tag, invalid tag) leaves no
\* entry for the type of its argument and leaves the entries the cache had;
\* every later structInfo call on the same type panics the same way.
C23_FaultNotCached ==
    \A i \in 1..Len(history) :
        (history[i].api = "reflect" /\ history[i].fault # "") =>
            /\ history[i].node.typ \notin DOMAIN history[i].after
            /\ KeepsEntries(history[i].before, history[i].after)
            /\ \A j \in (i + 1)..Len(history) :
                  (history[j].api = "reflect" /\ history[j].node = history[i].node) =>
                      history[j].fault = history[i].fault

\* structInfo panicked on a type, cached another type without panic, and
\* panicked on the first type again.
C23_Witness ==
    /\ Len(history) = 3
    /\ \A i \in 1..3 : history[i].api = "reflect"
    /\ history[1].fault # ""
    /\ history[2].fault = "" /\ history[2].node.kind = "struct"
    /\ history[2].node # history[1].node
    /\ history[3].node = history[1].node
    /\ history[3].fault = history[1].fault
    /\ history[2].node.typ \in DOMAIN history[3].after

RECURSIVE NoTags(_)
\* No member of the struct type t, nor of a struct it embeds, has a tag.
NoTags(t) ==
    \A k \in 1..Len(StructTypes[t]) :
        /\ ~StructTypes[t][k].hasTag
        /\ (StructTypes[t][k].anonymous /\ StructTypes[t][k].kind = "struct") =>
              NoTags(StructTypes[t][k].typ)

RECURSIVE EmbeddedTypes(_)
\* The types of the structs t embeds, and of those these embed.
EmbeddedTypes(t) ==
    UNION { IF StructTypes[t][k].anonymous /\ StructTypes[t][k].kind = "struct"
            THEN { StructTypes[t][k].typ } \cup EmbeddedTypes(StructTypes[t][k].typ)
            ELSE { } : k \in 1..Len(StructTypes[t]) }

\* The call c introspected what is no struct: nil, and the cache as it was.
NilForNoStruct(c) ==
    c.node.kind # "struct" => c.fault = "" /\ c.info = NoValue /\ c.after = c.before

\* The call c is the first introspection of a struct without any tag.
FirstOfUntagged(c) ==
    /\ c.node.kind = "struct"
    /\ NoTags(c.node.typ)
    /\ c.node.typ \notin DOMAIN c.before

\* The entry without role locations, in the generation of the call c.
AbsentEntry(c) == IF c.api = "any" THEN NewStructFields ELSE NewFieldCacheItem

\* The call c returned and cached the entry without role locations and left
\* the other entries alone.
CachedAbsent(c) ==
    /\ c.fault = ""
    /\ c.info = AbsentEntry(c)
    /\ c.node.typ \in DOMAIN c.after
    /\ c.after[c.node.typ] = AbsentEntry(c)
    /\ KeepsEntries(c.before, c.after)

\* C24 as stated: introspecting what is no struct returns nil and leaves the
\* cache as it is; the first introspection of a struct without a tagged
\* member adds exactly one entry, for its type, without role locations.
C24_OneEntryForUntagged ==
    \A i \in 1..Len(history) :
        /\ NilForNoStruct(history[i])
        /\ FirstOfUntagged(history[i]) =>
              /\ CachedAbsent(history[i])
              /\ DOMAIN history[i].after = DOMAIN history[i].before \cup { history[i].node.typ }

\* C24 amended: as stated, except that structInfo of the reflect.Value
\* generation also adds an entry (without role locations) for every struct
\* type the struct embeds that was not cached yet; structFieldInfo adds the
\* one entry only.
C24_EntriesForUntagged ==
    \A i \in 1..Len(history) :
        /\ NilForNoStruct(history[i])
        /\ FirstOfUntagged(history[i]) =>
              /\ CachedAbsent(history[i])
              /\ DOMAIN history[i].after =
                    DOMAIN history[i].before \cup { history[i].node.typ }
                    \cup (IF history[i].api = "reflect"
                          THEN EmbeddedTypes(history[i].node.typ) ELSE { })
              /\ \A t \in DOMAIN history[i].after \ DOMAIN history[i].before :
                    history[i].after[t] = AbsentEntry(history[i])

\* Both generations introspected the 42 and then, for the first time, a
\* struct with one untagged member.
C24_Witness ==
    /\ Len(history) = 3
    /\ history[1].node = IntV(42) /\ history[1].info = NoValue
    /\ history[2].api = "reflect" /\ history[3].api = "any"
    /\ history[2].node = ZeroOf("X") /\ history[3].node = ZeroOf("X")
    /\ DOMAIN history[2].after = { "X" } /\ DOMAIN history[3].after = { "X" }

RECURSIVE Depth(_)
\* The number of levels of a resolved tree.
Depth(t) ==
    IF t.children = << >> THEN 1
    ELSE 1 + CHOOSE m \in { Depth(t.children[i]) : i \in 1..Len(t.children) } :
                 \A i \in 1..Len(t.children) : Depth(t.children[i]) <= m

\* The progress of a Render under way: the lines written, counted twice,
\* less the renderSubtree iterators that are active.
Progress == 2 * Cardinality({ i \in 1..Len(result) : result[i] = "\n" }) - Len(stack)

\* A Render under way has a next step: the loop over the roots enters the
\* next root or Render returns; the innermost iterator yields a property,
\* enters its next child, or is exhausted.
CanStep ==
    IF stack = << >> THEN rootIdx >= 1
    ELSE /\ stack[Len(stack)].pi <= Len(stack[Len(stack)].props)
         /\ stack[Len(stack)].idx >= 1

\* C25: every call of Render comes to an end: while it is under way it has
\* a next step, every step ends it or adds to its progress, the roots stay
\* as resolved, and the progress never exceeds two per line of the roots'
\* trees. It never has more renderSubtree iterators active than the tree is
\* deep, and the text it returns has exactly one line per node and one per
\* property of every node (no line at all for no roots).
C25_RenderTerminates ==
    /\ [][pc = "render" =>
            /\ rootsList' = rootsList /\ visitor' = visitor
            /\ pc' = "render" => Progress' > Progress]_vars
    /\ [](pc = "render" =>
            /\ CanStep
            /\ Progress <= 2 * SizeSum(ResolvedRoots, Len(rootsList)))
    /\ []((pc = "render" /\ stack # << >>) =>
             Len(stack) <= Depth(Resolved(rootsList[rootIdx])))
    /\ [](RenderDone =>
             /\ Len(OutLines) = SizeSum(ResolvedRoots, Len(rootsList))
             /\ rootsList = << >> => ret.text = << >>)

\* Render returned the text of a chain of three nodes: a root, its child
\* and the child's child, a leaf.
C25_Witness ==
    /\ RenderDone
    /\ Len(rootsList) = 1
    /\ Depth(ResolvedRoots[1]) = 3
    /\ Len(OutLines) = Size(ResolvedRoots[1])

RECURSIVE LevelBlocks(_, _, _)
\* Every node below t (t at depth d, block the lines of t's subtree) with
\* its depth, the lines of its subtree, and whether a sibling follows it.
LevelBlocks(t, block, d) ==
    UNION { { [depth |-> d + 1, block |-> ChildBlock(t, block, i),
               followed |-> i < Len(t.children), t |-> t.children[i]] }
            \cup LevelBlocks(t.children[i], ChildBlock(t, block, i), d + 1) :
            i \in 1..Len(t.children) }

\* The non-root nodes of the rendered trees.
RenderedChildren ==
    UNION { LevelBlocks(ResolvedRoots[i], RootBlock(i), 0) : i \in 1..Len(rootsList) }

\* The columns of a line that make up the indentation block of depth d.
IndentBlock(line, d) ==
    SubSeq(line, (d - 1) * styler.ChildIndent + 1, d * styler.ChildIndent)

\* C26: in the text Render returns, for every non-root node and every line
\* of its subtree but its label line, the indentation block of the node's
\* level holds the no-fork glyph followed by blanks when a sibling follows
\* the node, and blanks only when none does.
C26_VerticalLines ==
    RenderDone =>
        \A c \in RenderedChildren :
            \A j \in 2..Len(c.block) :
                /\ Len(c.block[j]) >= c.depth * styler.ChildIndent
                /\ IndentBlock(c.block[j], c.depth) =
                      IF c.followed
                      THEN styler.Style.Nofork \o Times(<< " " >>, styler.ChildIndent - 1)
                      ELSE Times(<< " " >>, styler.ChildIndent)

\* Render returned a tree in which a node with further lines is followed by
\* a sibling and a last child has further lines too.
C26_Witness ==
    /\ RenderDone
    /\ \E c \in RenderedChildren : c.followed /\ Len(c.block) >= 2
    /\ \E c \in RenderedChildren : ~c.followed /\ Len(c.block) >= 2

\* The trees of exactly MaxNodes nodes, as a single struct root each.
FullTrees ==
    { x \in { Concrete(g[1], "struct") : g \in { f \in ForestsOf(MaxNodes) : Len(f) = 1 } } :
        AllNodes(x) }

\* The width of what a styler method put before the text it was given.
PrefixWidth == Len(ret.text) - Len(input.s)

\* In the lines of the tree resolved as t, rendered with the styler s, the
\* label of every node at depth d starts behind d * ChildIndent columns and
\* each of its properties behind PropIndent + 2 more.
ColumnsOK(s, t, lines) ==
    \A c \in { [depth |-> 0, block |-> lines, followed |-> FALSE, t |-> t] }
             \cup LevelBlocks(t, lines, 0) :
        /\ Len(c.block[1]) = c.depth * s.ChildIndent + Len(c.t.label)
        /\ \A k \in 1..Len(c.t.props) :
              Len(c.block[1 + k]) =
                  c.depth * s.ChildIndent + s.PropIndent + 2 + Len(c.t.props[k])

\* C27: with ChildIndent >= 2 the four child-line methods put exactly
\* ChildIndent columns before the text, with PropIndent >= 1 the two
\* property methods put exactly PropIndent + 2; and in what Render returns
\* with such a styler (taken where the styler has not been called yet, once
\* per styler) every label at depth d starts at column
\* d * ChildIndent and all properties of a node start at one column.
C27_PrefixWidths ==
    /\ (pc = "done" /\ styler.ChildIndent >= 2
           /\ op \in { "renderBranchedNode", "renderLastNode", "indentLine",
                       "indentLineLastNode" }) =>
          PrefixWidth = styler.ChildIndent
    /\ (pc = "done" /\ styler.PropIndent >= 1
           /\ op \in { "renderPropertyNoChildrenFollowing",
                       "renderPropertyChildrenFollowing" }) =>
          PrefixWidth = styler.PropIndent + 2
    /\ (pc = "start" /\ input.s = << >>
           /\ styler.ChildIndent >= 2 /\ styler.PropIndent >= 1) =>
          \A x \in FullTrees :
              ColumnsOK(styler, Resolved(x), LinesOf(RenderOf(visitor, styler, x).text))

\* renderPropertyChildrenFollowing returned with the least PropIndent, 1:
\* three columns before the text.
C27_Witness ==
    /\ pc = "done" /\ op = "renderPropertyChildrenFollowing"
    /\ styler.PropIndent = 1
    /\ styler.ChildIndent = 2
    /\ PrefixWidth = 3

\* C28: for a node Get returns for, Label returns without panic and with
\* the label Get returned; and Label panics only for a node Get panics for.
C28_LabelAgreesWithGet ==
    /\ (op = "Get" /\ pc = "done") =>
          /\ Label(<< >>, orig).fault = ""
          /\ Label(<< >>, orig).label = ret.label
    /\ (op = "Label" /\ pc = "panic") => Get(visitor, << >>, orig).fault # ""

\* The sequences that hold the elements of seq in another order.
Reordered(seq) ==
    { [i \in 1..Len(seq) |-> seq[p[i]]] : p \in Permutations(1..Len(seq)) }

RECURSIVE SameUnordered(_)
RECURSIVE EachUnordered(_, _)
\* The data that differ from x in nothing but the stored order of nodes in
\* a slice of nodes and of texts in a slice of properties, at every level.
SameUnordered(x) ==
    LET under(key) == IF key \in DOMAIN x.m THEN SameUnordered(x.m[key]) ELSE { NoValue } IN
    CASE x.kind = "ptr" /\ x.elem.kind # "invalid" ->
            { PtrV(e) : e \in SameUnordered(x.elem) }
      [] x.kind = "slice" /\ x.of = "string" -> { StringsV(q) : q \in Reordered(x.elems) }
      [] x.kind = "slice" /\ x.of = "any" ->
            UNION { { SliceV(q) : q \in Reordered(e) } :
                      e \in EachUnordered(x.elems, Len(x.elems)) }
      [] x.kind = "struct" ->
            { StructV(x.typ, fs) : fs \in EachUnordered(x.fields, Len(x.fields)) }
      [] x.kind = "map" ->
            { MapV([k \in DOMAIN x.m |->
                      CASE k = "properties" -> p
                        [] k = "children" -> c
                        [] k = "roots" -> r
                        [] OTHER -> x.m[k]]) :
                p \in under("properties"), c \in under("children"), r \in under("roots") }
      [] OTHER -> { x }

\* The sequences whose elements are, place by place, among SameUnordered
\* of the first n elements of seq.
EachUnordered(seq, n) ==
    IF n = 0 THEN { << >> }
    ELSE { Append(q, e) : q \in EachUnordered(seq, n - 1), e \in SameUnordered(seq[n]) }

RECURSIVE DistinctLabels(_)
\* No two of the resolved trees ts have the same label, and so for the
\* children of each, at every level.
DistinctLabels(ts) ==
    /\ \A i, j \in 1..Len(ts) : i # j => ts[i].label # ts[j].label
    /\ \A i \in 1..Len(ts) : DistinctLabels(ts[i].children)

SortingVisitor == [SortNodes |-> TRUE, SortProperties |-> TRUE]

Cuts(t) == { 0, Len(t) + 1 } \cup { i \in 1..Len(t) : t[i] = "," }

\* The k-th of the pieces the commas cut t into.
Piece(t, k) ==
    LET a == CHOOSE c \in Cuts(t) : Cardinality({ d \in Cuts(t) : d < c }) = k - 1
        b == CHOOSE c \in Cuts(t) : Cardinality({ d \in Cuts(t) : d < c }) = k
    IN SubSeq(t, a + 1, b - 1)

\* p from its first to its last character that is no blank.
Stripped(p) ==
    LET inked == { i \in 1..Len(p) : p[i] \notin { " ", "\t", "\n" } } IN
    IF inked = { } THEN << >>
    ELSE SubSeq(p, CHOOSE i \in inked : \A j \in inked : i <= j,
                   CHOOSE i \in inked : \A j \in inked : i >= j)

NotEmpty(x) == x # << >>
IsRole(x) == x \in { TagRoots, TagLabel, TagProperties, TagChildren }
NoRole(x) == ~IsRole(x)

\* The items of the tag t: its pieces, stripped, the empty ones left out.
ItemsOf(t) ==
    SelectSeq([k \in 1..(Cardinality(Cuts(t)) - 1) |-> Stripped(Piece(t, k))], NotEmpty)

\* C30: asciitreeTagValues returns the items of the tag (cut at the commas,
\* blanks stripped, empty items left out) in their order with ok when each
\* of them is one of roots, label, properties, children (no item at all:
\* the empty list and ok); otherwise it returns the items that are none of
\* the four, in their order, and not ok.
C30_TagValues ==
    LET returns(items) ==
            IF \A i \in 1..Len(items) : IsRole(items[i])
            THEN ret.ok /\ ret.tags = items
            ELSE ~ret.ok /\ ret.tags = SelectSeq(items, NoRole)
    IN (op = "asciitreeTagValues" /\ pc = "done") => returns(ItemsOf(input.s))

\* asciitreeTagValues(" label\t,foo,bar") returned foo, bar and not ok.
C30_Witness ==
    /\ op = "asciitreeTagValues" /\ pc = "done"
    /\ input.s = << " " >> \o TagLabel \o << "\t", ",", "f", "o", "o", ",", "b", "a", "r" >>
    /\ ret.tags = << << "f", "o", "o" >>, << "b", "a", "r" >> >>
    /\ ~ret.ok

====
